---- MODULE Spec2Model ----
(***************************************************************************)
(* State-machine model of the scene entity store (useModeling), the room   *)
(* synthesis actions and the staged blueprint pipeline of modelforge-ai.   *)
(*                                                                         *)
(* Conventions                                                             *)
(*  - A JavaScript number v is the integer v * One (two decimals), angles  *)
(*    are in degrees (Math.PI is 180 * One).                               *)
(*  - A JavaScript object is a record; a property holding undefined is a   *)
(*    key missing from the record's domain.                                *)
(*  - null and undefined are the records Null and Undefined.               *)
(*  - A string built by appending " Copy" is [base, copies]: the text      *)
(*    base followed by copies occurrences of " Copy".                      *)
(*  - An id `obj_<Date.now()>_<random>` is the value of a counter: the     *)
(*    random suffix is taken to be fresh.                                  *)
(***************************************************************************)
EXTENDS Integers, Sequences, FiniteSets, TLC

VARIABLES objects, selectedObject, currentRoom, floorPlan, viewMode,
          nextId, nextRoom, timers, timerSeq, now, result, last,
          history, pending

vars == <<objects, selectedObject, currentRoom, floorPlan, viewMode,
          nextId, nextRoom, timers, timerSeq, now, result, last,
          history, pending>>

\* ------------------------------------------------------------------ bounds
MaxIds == 3
MaxRoomIds == 2
MaxRooms == 1
MaxSynth == 1
MaxMix == 2
MaxBuild == 2
MaxFurnish == 2

\* commands of the command line that may differ from one another
MaxPanel == 3

\* entities in a scene the assistant works on, and its requests in flight
MaxChat == 2
MaxPending == 1

\* --------------------------------------------------------------- values
One == 100
Null == [nil |-> "null"]
Undefined == [nil |-> "undefined"]
NullId == 0

Vec(a, b, c) == [x |-> a, y |-> b, z |-> c]
Str(s) == [base |-> s, copies |-> 0]

IsEntity(v) == "id" \in DOMAIN v

\* JavaScript truthiness of a string
Truthy(s) == ~(s.base = "" /\ s.copies = 0)

\* `${s} Copy`
WithCopy(s) == [s EXCEPT !.copies = @ + 1]

\* { ...a, ...b }
Merge(a, b) ==
  [k \in (DOMAIN a) \cup (DOMAIN b) |-> IF k \in DOMAIN b THEN b[k] ELSE a[k]]

\* { ...a } without the property k
Without(a, k) == [j \in (DOMAIN a) \ {k} |-> a[j]]

\* Array.prototype.find by id: the first match, or undefined
RECURSIVE FindFrom(_, _, _)
FindFrom(objs, id, i) ==
  IF i > Len(objs) THEN Undefined
  ELSE IF objs[i].id = id THEN objs[i]
  ELSE FindFrom(objs, id, i + 1)

Find(objs, id) == FindFrom(objs, id, 1)

\* Array.prototype.filter(obj => obj.id !== id)
RECURSIVE FilterOut(_, _)
FilterOut(objs, id) ==
  IF objs = <<>> THEN <<>>
  ELSE IF Head(objs).id # id THEN <<Head(objs)>> \o FilterOut(Tail(objs), id)
  ELSE FilterOut(Tail(objs), id)

\* selectedObject?.id === id
SelectedIs(sel, id) == IsEntity(sel) /\ sel.id = id

Ids(objs) == {objs[i].id : i \in 1..Len(objs)}

\* last names the operation that ran last, its id argument (or the id it
\* assigned) and whether that id was in the collection when it was called.
Did(op, id) == [op |-> op, id |-> id, hit |-> FALSE]
DidOn(op, id) == [op |-> op, id |-> id, hit |-> id \in Ids(objects)]

\* ------------------------------------------------------- store functions
\* The functions of the store as state transformers on
\* st = [objects, selectedObject, nextId]; createObject also yields the
\* created entity as st.ret.

NewObject(params, id) == Merge(params, [id |-> id])

\* variant: the created entity is not selected
createObject_noSelect(st, params) ==
  LET newObject == NewObject(params, st.nextId)
  IN [objects |-> Append(st.objects, newObject),
      selectedObject |-> st.selectedObject,
      nextId |-> st.nextId + 1,
      ret |-> newObject]

createObject(st, params) ==
  LET newObject == NewObject(params, st.nextId)
  IN [objects |-> Append(st.objects, newObject),
      selectedObject |-> newObject,
      nextId |-> st.nextId + 1,
      ret |-> newObject]

updateObjects(objs, id, updates) ==
  [i \in 1..Len(objs) |->
     IF objs[i].id = id THEN Merge(objs[i], updates) ELSE objs[i]]

\* variant: the selection keeps the object it held before the patch
updateSelected_stale(sel, id, updates) == sel

\* variant: the patch is merged into whatever is selected
updateSelected_anyId(sel, id, updates) ==
  IF IsEntity(sel) THEN Merge(sel, updates) ELSE sel

updateSelected(sel, id, updates) ==
  IF SelectedIs(sel, id) THEN Merge(sel, updates) ELSE sel

\* variant: every delete clears the selection
deleteSelected_always(sel, id) == Null

deleteSelected(sel, id) ==
  IF SelectedIs(sel, id) THEN Null ELSE sel

\* variant: the copy is offset along x only
DuplicateParams_xOnly(originalObject) ==
  LET named == IF "name" \in DOMAIN originalObject /\ Truthy(originalObject.name)
               THEN Merge(originalObject, [name |-> WithCopy(originalObject.name)])
               ELSE Without(originalObject, "name")
  IN Merge(named,
           [position |-> Vec(originalObject.position.x + One,
                             originalObject.position.y,
                             originalObject.position.z)])

DuplicateParams(originalObject) ==
  LET named == IF "name" \in DOMAIN originalObject /\ Truthy(originalObject.name)
               THEN Merge(originalObject, [name |-> WithCopy(originalObject.name)])
               ELSE Without(originalObject, "name")
  IN Merge(named,
           [position |-> Vec(originalObject.position.x + One,
                             originalObject.position.y,
                             originalObject.position.z + One)])

objectToSelect(objs, id) ==
  IF id # NullId THEN Find(objs, id) ELSE Null

\* type.replace('_', ' ').toUpperCase()
RoomName(type) ==
  CASE type = "bedroom" -> "BEDROOM"
    [] type = "living_room" -> "LIVING ROOM"
    [] type = "kitchen" -> "KITCHEN"
    [] type = "bathroom" -> "BATHROOM"
    [] type = "office" -> "OFFICE"
    [] type = "custom" -> "CUSTOM"

FloorParams(type, dimensions, roomId) ==
  [type |-> "floor", category |-> "room", name |-> Str(type \o " Floor"),
   position |-> Vec(0, 0, 0),
   scale |-> Vec(dimensions.width, One \div 10, dimensions.length),
   rotation |-> Vec(0, 0, 0), color |-> "#8B7355",
   room |-> roomId, isStructural |-> TRUE]

WallParams(wallName, pos, scl, roomId) ==
  [type |-> "wall", category |-> "room", name |-> Str(wallName),
   position |-> pos, scale |-> scl, rotation |-> Vec(0, 0, 0),
   color |-> "#F5F5F5", room |-> roomId, isStructural |-> TRUE]

\* variant: the north wall is set inside the floor, its outer face on the edge
NorthWall_inset(d, roomId) ==
  WallParams("North Wall",
             Vec(0, d.height \div 2, (d.length \div 2) - (One \div 10)),
             Vec(d.width, d.height, One \div 5), roomId)

NorthWall(d, roomId) ==
  WallParams("North Wall", Vec(0, d.height \div 2, d.length \div 2),
             Vec(d.width, d.height, One \div 5), roomId)

SouthWall(d, roomId) ==
  WallParams("South Wall", Vec(0, d.height \div 2, 0 - (d.length \div 2)),
             Vec(d.width, d.height, One \div 5), roomId)

EastWall(d, roomId) ==
  WallParams("East Wall", Vec(d.width \div 2, d.height \div 2, 0),
             Vec(One \div 5, d.height, d.length), roomId)

WestWall(d, roomId) ==
  WallParams("West Wall", Vec(0 - (d.width \div 2), d.height \div 2, 0),
             Vec(One \div 5, d.height, d.length), roomId)

\* variant: the room is left open to the west
createRoom_noWestWall(st, type, dimensions, roomId) ==
  LET s1 == createObject(st, FloorParams(type, dimensions, roomId))
      s2 == createObject(s1, NorthWall(dimensions, roomId))
      s3 == createObject(s2, SouthWall(dimensions, roomId))
      s4 == createObject(s3, EastWall(dimensions, roomId))
      room == [id |-> roomId, name |-> RoomName(type), type |-> type,
               dimensions |-> dimensions,
               walls |-> <<s2.ret, s3.ret, s4.ret>>,
               floor |-> s1.ret,
               furniture |-> <<>>, doors |-> <<>>, windows |-> <<>>]
  IN [s4 EXCEPT !.ret = room]

\* createRoom on st = [objects, selectedObject, nextId]; st.ret is the Room
createRoom(st, type, dimensions, roomId) ==
  LET s1 == createObject(st, FloorParams(type, dimensions, roomId))
      s2 == createObject(s1, NorthWall(dimensions, roomId))
      s3 == createObject(s2, SouthWall(dimensions, roomId))
      s4 == createObject(s3, EastWall(dimensions, roomId))
      s5 == createObject(s4, WestWall(dimensions, roomId))
      room == [id |-> roomId, name |-> RoomName(type), type |-> type,
               dimensions |-> dimensions,
               walls |-> <<s2.ret, s3.ret, s4.ret, s5.ret>>,
               floor |-> s1.ret,
               furniture |-> <<>>, doors |-> <<>>, windows |-> <<>>]
  IN [s5 EXCEPT !.ret = room]

furnitureColors ==
  [bed |-> "#8B4513", chair |-> "#654321", table |-> "#D2691E",
   dining_table |-> "#CD853F", sofa |-> "#4A4A4A", desk |-> "#8B7355",
   wardrobe |-> "#696969", tv_stand |-> "#2F4F4F", counter |-> "#8B7355",
   refrigerator |-> "#C0C0C0", toilet |-> "#FFFFFF", sink |-> "#F5F5F5",
   bathtub |-> "#FFFFFF", nightstand |-> "#654321", bookshelf |-> "#8B4513"]

furnitureScales ==
  [bed |-> Vec(200, 50, 100), chair |-> Vec(50, 100, 50),
   table |-> Vec(150, 80, 80), dining_table |-> Vec(200, 80, 120),
   sofa |-> Vec(200, 80, 80), desk |-> Vec(120, 80, 60),
   wardrobe |-> Vec(100, 200, 60), tv_stand |-> Vec(150, 60, 40),
   counter |-> Vec(200, 80, 60), refrigerator |-> Vec(60, 200, 60),
   toilet |-> Vec(60, 80, 80), sink |-> Vec(60, 80, 40),
   bathtub |-> Vec(150, 60, 80), nightstand |-> Vec(50, 60, 40),
   bookshelf |-> Vec(40, 200, 150)]

\* furnitureType.charAt(0).toUpperCase() + furnitureType.slice(1)
Capitalize(t) ==
  CASE t = "bed" -> "Bed" [] t = "chair" -> "Chair" [] t = "table" -> "Table"
    [] t = "dining_table" -> "Dining_table" [] t = "sofa" -> "Sofa"
    [] t = "desk" -> "Desk" [] t = "wardrobe" -> "Wardrobe"
    [] t = "tv_stand" -> "Tv_stand" [] t = "counter" -> "Counter"
    [] t = "refrigerator" -> "Refrigerator" [] t = "toilet" -> "Toilet"
    [] t = "sink" -> "Sink" [] t = "bathtub" -> "Bathtub"
    [] t = "nightstand" -> "Nightstand" [] t = "bookshelf" -> "Bookshelf"
    [] t = "lamp" -> "Lamp"
    [] t = "coffee_table" -> "Coffee_table"

\* variant: the furniture is always put at the default position
FurnitureParams_ignoresPosition(roomId, furnitureType, position) ==
  [type |-> "furniture", category |-> "furniture", subtype |-> furnitureType,
   name |-> Str(Capitalize(furnitureType)),
   position |-> Vec(0, One \div 2, 0),
   scale |-> IF furnitureType \in DOMAIN furnitureScales
             THEN furnitureScales[furnitureType] ELSE Vec(One, One, One),
   rotation |-> Vec(0, 0, 0),
   color |-> IF furnitureType \in DOMAIN furnitureColors
             THEN furnitureColors[furnitureType] ELSE "#8B4513",
   room |-> roomId]

FurnitureParams(roomId, furnitureType, position) ==
  [type |-> "furniture", category |-> "furniture", subtype |-> furnitureType,
   name |-> Str(Capitalize(furnitureType)),
   position |-> IF position \in {Undefined, Null}
                THEN Vec(0, One \div 2, 0) ELSE position,
   scale |-> IF furnitureType \in DOMAIN furnitureScales
             THEN furnitureScales[furnitureType] ELSE Vec(One, One, One),
   rotation |-> Vec(0, 0, 0),
   color |-> IF furnitureType \in DOMAIN furnitureColors
             THEN furnitureColors[furnitureType] ELSE "#8B4513",
   room |-> roomId]

addFurniture(st, roomId, furnitureType, position) ==
  createObject(st, FurnitureParams(roomId, furnitureType, position))

\* ------------------------------------------------------ blueprint pipeline
Stage1(roomId) ==
  << FurnitureParams(roomId, "sofa", Vec(-300, 40, 150)),
     FurnitureParams(roomId, "sofa", Vec(-450, 40, 0)),
     FurnitureParams(roomId, "table", Vec(-250, 40, 50)),
     FurnitureParams(roomId, "nightstand", Vec(-150, 40, 200)),
     FurnitureParams(roomId, "tv_stand", Vec(-550, 40, 50)),
     [type |-> "plane", category |-> "decoration",
      name |-> Str("Area Rug"), position |-> Vec(-300, 5, 80),
      scale |-> Vec(300, 10, 250), rotation |-> Vec(-9000, 0, 0),
      color |-> "#8B4513", room |-> roomId, material |-> "fabric"] >>

Stage2(roomId) ==
  << FurnitureParams(roomId, "dining_table", Vec(0, 40, -150)),
     FurnitureParams(roomId, "chair", Vec(-80, 50, -150)),
     FurnitureParams(roomId, "chair", Vec(80, 50, -150)),
     FurnitureParams(roomId, "chair", Vec(0, 50, -220)),
     FurnitureParams(roomId, "chair", Vec(0, 50, -80)),
     FurnitureParams(roomId, "chair", Vec(-40, 50, -220)),
     FurnitureParams(roomId, "chair", Vec(40, 50, -80)),
     FurnitureParams(roomId, "desk", Vec(150, 40, -300)) >>

Stage3(roomId) ==
  << [type |-> "furniture", category |-> "furniture",
      subtype |-> "counter", name |-> Str("Main Kitchen Counter"),
      position |-> Vec(-350, 40, -420), scale |-> Vec(400, 90, 70),
      rotation |-> Vec(0, 0, 0), color |-> "#2C3E50", room |-> roomId,
      material |-> "granite"],
     [type |-> "furniture", category |-> "furniture",
      subtype |-> "counter", name |-> Str("Kitchen Island"),
      position |-> Vec(-100, 40, -350), scale |-> Vec(250, 90, 120),
      rotation |-> Vec(0, 0, 0), color |-> "#34495E", room |-> roomId,
      material |-> "marble"],
     [type |-> "furniture", category |-> "furniture",
      subtype |-> "refrigerator", name |-> Str("French Door Refrigerator"),
      position |-> Vec(-520, 110, -420), scale |-> Vec(70, 220, 70),
      rotation |-> Vec(0, 0, 0), color |-> "#BDC3C7", room |-> roomId,
      material |-> "stainless_steel"],
     [type |-> "furniture", category |-> "furniture", subtype |-> "oven",
      name |-> Str("Built-in Oven"), position |-> Vec(-300, 80, -460),
      scale |-> Vec(60, 60, 50), rotation |-> Vec(0, 0, 0),
      color |-> "#2C3E50", room |-> roomId, material |-> "stainless_steel"],
     [type |-> "furniture", category |-> "furniture", subtype |-> "sink",
      name |-> Str("Double Kitchen Sink"),
      position |-> Vec(-200, 50, -460), scale |-> Vec(100, 30, 60),
      rotation |-> Vec(0, 0, 0), color |-> "#ECF0F1", room |-> roomId,
      material |-> "ceramic"],
     FurnitureParams(roomId, "chair", Vec(-50, 70, -280)),
     FurnitureParams(roomId, "chair", Vec(-150, 70, -280)) >>

Stage4(roomId) ==
  << [type |-> "furniture", category |-> "furniture", subtype |-> "toilet",
      name |-> Str("Modern Toilet"), position |-> Vec(450, 40, -380),
      scale |-> Vec(70, 90, 90), rotation |-> Vec(0, 18000, 0),
      color |-> "#FFFFFF", room |-> roomId, material |-> "ceramic"],
     [type |-> "furniture", category |-> "furniture", subtype |-> "vanity",
      name |-> Str("Bathroom Vanity"), position |-> Vec(450, 40, -250),
      scale |-> Vec(150, 90, 60), rotation |-> Vec(0, 0, 0),
      color |-> "#34495E", room |-> roomId, material |-> "wood"],
     [type |-> "plane", category |-> "furniture",
      name |-> Str("Bathroom Mirror"), position |-> Vec(450, 150, -280),
      scale |-> Vec(130, 100, 10), rotation |-> Vec(0, 0, 0),
      color |-> "#85C1E9", room |-> roomId, material |-> "mirror"],
     [type |-> "furniture", category |-> "furniture",
      subtype |-> "bathtub", name |-> Str("Freestanding Bathtub"),
      position |-> Vec(320, 30, -420), scale |-> Vec(180, 70, 90),
      rotation |-> Vec(0, 4500, 0), color |-> "#FFFFFF", room |-> roomId,
      material |-> "acrylic"],
     [type |-> "cube", category |-> "furniture",
      name |-> Str("Shower Enclosure"), position |-> Vec(520, 100, -200),
      scale |-> Vec(10, 200, 120), rotation |-> Vec(0, 0, 0),
      color |-> "#85C1E9", room |-> roomId, material |-> "glass"] >>

Stage5(roomId) ==
  << [type |-> "door", category |-> "structure",
      name |-> Str("Main Entrance"), position |-> Vec(-100, 100, 490),
      scale |-> Vec(10, 220, 100), rotation |-> Vec(0, 0, 0),
      color |-> "#2C3E50", room |-> roomId, isStructural |-> TRUE,
      material |-> "wood"],
     [type |-> "door", category |-> "structure",
      name |-> Str("Bathroom Door"), position |-> Vec(330, 100, -150),
      scale |-> Vec(80, 200, 10), rotation |-> Vec(0, 0, 0),
      color |-> "#FFFFFF", room |-> roomId, isStructural |-> TRUE,
      material |-> "wood"],
     [type |-> "window", category |-> "structure",
      name |-> Str("Living Room Bay Window"),
      position |-> Vec(-590, 120, 100), scale |-> Vec(10, 240, 300),
      rotation |-> Vec(0, 0, 0), color |-> "#85C1E9", room |-> roomId,
      isStructural |-> TRUE, material |-> "glass"],
     [type |-> "window", category |-> "structure",
      name |-> Str("Kitchen Window"), position |-> Vec(-200, 180, -490),
      scale |-> Vec(200, 120, 10), rotation |-> Vec(0, 0, 0),
      color |-> "#85C1E9", room |-> roomId, isStructural |-> TRUE,
      material |-> "glass"],
     [type |-> "window", category |-> "structure",
      name |-> Str("Bathroom Window"), position |-> Vec(590, 180, -300),
      scale |-> Vec(10, 100, 120), rotation |-> Vec(0, 0, 0),
      color |-> "#85C1E9", room |-> roomId, isStructural |-> TRUE,
      material |-> "glass"] >>

Stage6(roomId) ==
  << [type |-> "plane", category |-> "decoration",
      name |-> Str("Hardwood Flooring"), position |-> Vec(-200, 1, 0),
      scale |-> Vec(800, 1, 600), rotation |-> Vec(-9000, 0, 0),
      color |-> "#8B4513", room |-> roomId, material |-> "wood"],
     [type |-> "plane", category |-> "decoration",
      name |-> Str("Kitchen Tile"), position |-> Vec(-250, 1, -380),
      scale |-> Vec(400, 1, 250), rotation |-> Vec(-9000, 0, 0),
      color |-> "#BDC3C7", room |-> roomId, material |-> "ceramic"],
     [type |-> "plane", category |-> "decoration",
      name |-> Str("Bathroom Tile"), position |-> Vec(420, 1, -320),
      scale |-> Vec(250, 1, 280), rotation |-> Vec(-9000, 0, 0),
      color |-> "#F8F9FA", room |-> roomId, material |-> "ceramic"],
     [type |-> "sphere", category |-> "decoration",
      name |-> Str("Pendant Light"), position |-> Vec(0, 250, -150),
      scale |-> Vec(30, 30, 30), rotation |-> Vec(0, 0, 0),
      color |-> "#F39C12", room |-> roomId, material |-> "glass"] >>

NumStages == 6

StageParams(k, roomId) ==
  CASE k = 1 -> Stage1(roomId)
    [] k = 2 -> Stage2(roomId)
    [] k = 3 -> Stage3(roomId)
    [] k = 4 -> Stage4(roomId)
    [] k = 5 -> Stage5(roomId)
    [] k = 6 -> Stage6(roomId)

\* variant: the later a stage is written, the sooner it is due
StageDelay_reversed(k) == (NumStages + 1 - k) * 100

\* the delay, in milliseconds, of the k-th setTimeout
StageDelay(k) == k * 100

\* the body of a stage callback: its createObject/addFurniture calls in order
\* (the store state and the remaining calls are bound as values before each
\* call)
RECURSIVE createAll(_, _)
createAll(st, paramsSeq) ==
  IF paramsSeq = <<>> THEN st
  ELSE CHOOSE r \in { createAll(createObject(s, Head(ps)), Tail(ps)) :
                        s \in {st}, ps \in {paramsSeq} } : TRUE

\* the entities createRoom creates: one floor and four walls
ShellSize == 5

\* variant: a stage other than the first builds on what an earlier stage left
runStage_needsEarlier(st, k, roomId) ==
  IF k = 1 \/ Len(st.objects) > ShellSize
  THEN createAll(st, StageParams(k, roomId))
  ELSE st

\* variant: a stage gives the selection back to what was selected before it
runStage_keepsSelection(st, k, roomId) ==
  [createAll(st, StageParams(k, roomId)) EXCEPT !.selectedObject = st.selectedObject]

runStage(st, k, roomId) == createAll(st, StageParams(k, roomId))

ApartmentDimensions == [width |-> 12 * One, length |-> 10 * One, height |-> 3 * One]

\* the timers one invocation schedules
Scheduled(roomId, t, seq0) ==
  { [seq |-> seq0 + k, due |-> t + StageDelay(k), stage |-> k, room |-> roomId] :
      k \in 1..NumStages }

\* the pending timer the event loop runs next: earliest deadline, then
\* order of scheduling
NextTimer ==
  CHOOSE t \in timers :
    \A u \in timers : t.due < u.due \/ (t.due = u.due /\ t.seq <= u.seq)

Store == [objects |-> objects, selectedObject |-> selectedObject, nextId |-> nextId]

\* ---------------------------------------------------------- command parser
\* A command string is a sequence of pieces: a piece is one whitespace
\* character or a run of other characters.
IsSpace(p) == p \in {" ", "\t"}

\* String.prototype.toLowerCase on a piece
ToLower(p) ==
  CASE p = "CREATE" -> "create"
    [] p = "Create" -> "create"
    [] p = "Cube" -> "cube"
    [] p = "BALL" -> "ball"
    [] p = "Red" -> "red"
    [] p = "M" -> "m"
    [] OTHER -> p

toLowerCase(command) == [i \in DOMAIN command |-> ToLower(command[i])]

\* String.prototype.trim
trim(command) ==
  LET solid == { i \in DOMAIN command : ~IsSpace(command[i]) }
  IN IF solid = {} THEN <<>>
     ELSE SubSeq(command,
                 CHOOSE i \in solid : \A j \in solid : i <= j,
                 CHOOSE i \in solid : \A j \in solid : j <= i)

RECURSIVE SplitRuns(_, _, _)
\* the pieces between the runs of whitespace; cur is the token being read
SplitRuns(command, cur, inSpace) ==
  IF command = <<>> THEN <<cur>>
  ELSE IF IsSpace(Head(command))
       THEN IF inSpace THEN SplitRuns(Tail(command), cur, TRUE)
            ELSE <<cur>> \o SplitRuns(Tail(command), "", TRUE)
       ELSE SplitRuns(Tail(command), cur \o Head(command), FALSE)

\* String.prototype.split(/\s+/): the empty string gives one empty token
split(command) == SplitRuns(command, "", FALSE)

colorMap ==
  [red |-> "#ff6b6b", blue |-> "#4ecdc4", green |-> "#51cf66",
   yellow |-> "#ffd93d", orange |-> "#ff8c42", purple |-> "#9c88ff",
   pink |-> "#ff8cc8", cyan |-> "#22d3ee", gray |-> "#666666",
   grey |-> "#666666", white |-> "#ffffff", black |-> "#000000",
   brown |-> "#8b4513", lime |-> "#32ff32", magenta |-> "#ff00ff",
   navy |-> "#000080", silver |-> "#c0c0c0", gold |-> "#ffd700"]

\* variant: ball is not an alias
shapeAliases_withoutBall ==
  [box |-> "cube", circle |-> "sphere", tube |-> "cylinder",
   pyramid |-> "cone", ring |-> "torus", donut |-> "torus",
   rectangle |-> "plane", square |-> "plane"]

shapeAliases ==
  [box |-> "cube", circle |-> "sphere", ball |-> "sphere", tube |-> "cylinder",
   pyramid |-> "cone", ring |-> "torus", donut |-> "torus",
   rectangle |-> "plane", square |-> "plane"]

validShapes == <<"cube", "sphere", "cylinder", "cone", "torus", "plane">>

\* parseFloat on a token, in hundredths; a token that is not listed is NaN
Numbers ==
  ("0" :> 0) @@ ("1" :> 100) @@ ("2" :> 200) @@ ("3" :> 300) @@ ("-2" :> -200)
    @@ ("0.5" :> 50) @@ ("90" :> 9000) @@ ("45" :> 4500) @@ ("1.5" :> 150)
    @@ ("0.7" :> 70) @@ ("1.2" :> 120)

isNaN(token) == token \notin DOMAIN Numbers
parseFloat(token) == Numbers[token]

\* Array.prototype.includes, indexOf (from 0, -1 when absent), join(' ')
includes(tokens, w) == \E i \in DOMAIN tokens : tokens[i] = w

indexOf(tokens, w) ==
  IF includes(tokens, w)
  THEN (CHOOSE i \in DOMAIN tokens :
          tokens[i] = w /\ \A j \in DOMAIN tokens : tokens[j] = w => i <= j) - 1
  ELSE -1

RECURSIVE join(_)
join(tokens) ==
  IF tokens = <<>> THEN ""
  ELSE IF Len(tokens) = 1 THEN tokens[1]
  ELSE tokens[1] \o " " \o join(Tail(tokens))

\* tokens[i] with i counted from 0; a token past the end is undefined, which
\* parseFloat turns into NaN
TokenIsNumber(tokens, i) == i + 1 \in DOMAIN tokens /\ ~isNaN(tokens[i + 1])
TokenNumber(tokens, i) == parseFloat(tokens[i + 1])

Failure(message) == [success |-> FALSE, error |-> message]
Success(action) == [success |-> TRUE, action |-> action]

\* target: 'selected' when the tokens name the object, left undefined otherwise
WithTarget(action, tokens) ==
  IF includes(tokens, "object") \/ includes(tokens, "selected")
  THEN Merge(action, [target |-> "selected"])
  ELSE action

\* the result of Array.prototype.find when no token qualifies: the callers
\* only test it for truthiness, and a token that is found is never empty
NoToken == ""

\* the first token that is a color name, searched over all tokens
colorToken(tokens) ==
  LET found == { i \in DOMAIN tokens : tokens[i] \in DOMAIN colorMap }
  IN IF found = {} THEN NoToken
     ELSE tokens[CHOOSE i \in found : \A j \in found : i <= j]

\* variant: the last token that parses as a number
numberToken_last(tokens) ==
  LET found == { i \in DOMAIN tokens : ~isNaN(tokens[i]) }
  IN IF found = {} THEN NoToken
     ELSE tokens[CHOOSE i \in found : \A j \in found : j <= i]

\* the first token that parses as a number
numberToken(tokens) ==
  LET found == { i \in DOMAIN tokens : ~isNaN(tokens[i]) }
  IN IF found = {} THEN NoToken
     ELSE tokens[CHOOSE i \in found : \A j \in found : i <= j]

parseCreateCommand(tokens) ==
  IF Len(tokens) = 0
  THEN Failure("Missing shape type. Try: create cube, create sphere, etc.")
  ELSE
    LET shape == IF tokens[1] \in DOMAIN shapeAliases
                 THEN shapeAliases[tokens[1]] ELSE tokens[1]
        found == colorToken(tokens)
        color == IF found # NoToken THEN colorMap[found] ELSE "#666666"
        atIndex == indexOf(tokens, "at")
        position ==
          IF /\ atIndex # -1
             /\ atIndex < Len(tokens) - 2
             /\ TokenIsNumber(tokens, atIndex + 1)
             /\ TokenIsNumber(tokens, atIndex + 2)
          THEN Vec(TokenNumber(tokens, atIndex + 1),
                   TokenNumber(tokens, atIndex + 2),
                   IF TokenIsNumber(tokens, atIndex + 3)
                   THEN TokenNumber(tokens, atIndex + 3) ELSE 0)
          ELSE Vec(0, One, 0)
        sizes == { i \in DOMAIN tokens : tokens[i] \in {"size", "scale"} }
        sizeIndex == IF sizes = {} THEN -1
                     ELSE (CHOOSE i \in sizes : \A j \in sizes : i <= j) - 1
        scale ==
          IF /\ sizeIndex # -1
             /\ sizeIndex < Len(tokens) - 1
             /\ TokenIsNumber(tokens, sizeIndex + 1)
             /\ TokenNumber(tokens, sizeIndex + 1) > 0
          THEN Vec(TokenNumber(tokens, sizeIndex + 1),
                   TokenNumber(tokens, sizeIndex + 1),
                   TokenNumber(tokens, sizeIndex + 1))
          ELSE Vec(One, One, One)
    IN IF ~includes(validShapes, shape)
       THEN Failure("Unknown shape: " \o shape
                      \o ". Valid shapes: cube, sphere, cylinder, cone, torus, plane")
       ELSE Success([type |-> "create", shape |-> shape, color |-> color,
                     position |-> position, scale |-> scale])

\* variant: the z coordinate is not optional
parseMoveCommand_needsZ(tokens) ==
  LET toIndex == indexOf(tokens, "to")
  IN IF Len(tokens) = 0
     THEN Failure("Missing movement direction or coordinates")
     ELSE IF includes(tokens, "up")
     THEN Success(WithTarget([type |-> "modify", property |-> "position",
                              position |-> Vec(0, One, 0)], tokens))
     ELSE IF includes(tokens, "down")
     THEN Success(WithTarget([type |-> "modify", property |-> "position",
                              position |-> Vec(0, 0 - One, 0)], tokens))
     ELSE IF /\ toIndex # -1
             /\ toIndex < Len(tokens) - 3
             /\ TokenIsNumber(tokens, toIndex + 1)
             /\ TokenIsNumber(tokens, toIndex + 2)
             /\ TokenIsNumber(tokens, toIndex + 3)
     THEN Success(WithTarget(
            [type |-> "modify", property |-> "position",
             position |-> Vec(TokenNumber(tokens, toIndex + 1),
                              TokenNumber(tokens, toIndex + 2),
                              TokenNumber(tokens, toIndex + 3))],
            tokens))
     ELSE Failure("Invalid move command. Try: move up, move down, move to x y z")

parseMoveCommand(tokens) ==
  LET toIndex == indexOf(tokens, "to")
  IN IF Len(tokens) = 0
     THEN Failure("Missing movement direction or coordinates")
     ELSE IF includes(tokens, "up")
     THEN Success(WithTarget([type |-> "modify", property |-> "position",
                              position |-> Vec(0, One, 0)], tokens))
     ELSE IF includes(tokens, "down")
     THEN Success(WithTarget([type |-> "modify", property |-> "position",
                              position |-> Vec(0, 0 - One, 0)], tokens))
     ELSE IF /\ toIndex # -1
             /\ toIndex < Len(tokens) - 2
             /\ TokenIsNumber(tokens, toIndex + 1)
             /\ TokenIsNumber(tokens, toIndex + 2)
     THEN Success(WithTarget(
            [type |-> "modify", property |-> "position",
             position |-> Vec(TokenNumber(tokens, toIndex + 1),
                              TokenNumber(tokens, toIndex + 2),
                              IF TokenIsNumber(tokens, toIndex + 3)
                              THEN TokenNumber(tokens, toIndex + 3) ELSE 0)],
            tokens))
     ELSE Failure("Invalid move command. Try: move up, move down, move to x y z")

\* the angle is parseFloat(token) * (Math.PI / 180), Math.PI / 4 by default
parseRotateCommand(tokens) ==
  LET angleToken == numberToken(tokens)
      angle == IF angleToken # NoToken THEN parseFloat(angleToken) ELSE 45 * One
  IN Success(WithTarget([type |-> "modify", property |-> "rotation",
                         rotation |-> Vec(0, angle, 0)], tokens))

parseScaleCommand(tokens) ==
  LET scaleToken == numberToken(tokens)
  IN IF Len(tokens) = 0 THEN Failure("Missing scale factor")
     ELSE IF scaleToken = NoToken
     THEN Failure("Invalid scale value. Use a number like: scale 2")
     ELSE IF parseFloat(scaleToken) <= 0
     THEN Failure("Scale value must be positive")
     ELSE Success(WithTarget(
            [type |-> "modify", property |-> "scale",
             scale |-> Vec(parseFloat(scaleToken), parseFloat(scaleToken),
                           parseFloat(scaleToken))], tokens))

parseColorCommand(tokens) ==
  LET found == colorToken(tokens)
  IN IF Len(tokens) = 0 THEN Failure("Missing color name")
     ELSE IF found = NoToken
     THEN Failure("Unknown color. Available colors: red, blue, green, yellow, "
                    \o "orange, purple, pink, cyan, gray, grey, white, black, "
                    \o "brown, lime, magenta, navy, silver, gold")
     ELSE Success(WithTarget([type |-> "modify", property |-> "color",
                              color |-> colorMap[found]], tokens))

parseSelectCommand(tokens) ==
  Success([type |-> "select", target |-> join(tokens)])

parseDeleteCommand(tokens) ==
  Success([type |-> "delete",
           target |-> IF \/ includes(tokens, "object")
                         \/ includes(tokens, "selected")
                         \/ Len(tokens) = 0
                      THEN "selected" ELSE join(tokens)])

parseCommand(command) ==
  LET tokens == split(trim(toLowerCase(command)))
      verb == tokens[1]
  IN IF Len(tokens) = 0 THEN Failure("Empty command")
     ELSE IF verb \in {"create", "add", "make"} THEN parseCreateCommand(Tail(tokens))
     ELSE IF verb \in {"move", "translate"} THEN parseMoveCommand(Tail(tokens))
     ELSE IF verb \in {"rotate", "turn"} THEN parseRotateCommand(Tail(tokens))
     ELSE IF verb \in {"scale", "resize", "size"} THEN parseScaleCommand(Tail(tokens))
     ELSE IF verb \in {"color", "paint"} THEN parseColorCommand(Tail(tokens))
     ELSE IF verb \in {"select", "choose"} THEN parseSelectCommand(Tail(tokens))
     ELSE IF verb \in {"delete", "remove"} THEN parseDeleteCommand(Tail(tokens))
     ELSE IF verb \in {"clear", "reset"} THEN Success([type |-> "clear"])
     ELSE IF \/ includes(tokens, "cube")
             \/ includes(tokens, "sphere")
             \/ includes(tokens, "cylinder")
     THEN parseCreateCommand(tokens)
     ELSE Failure("Unknown command: " \o verb
                    \o ". Try 'create', 'move', 'rotate', 'scale', 'color', or 'delete'")

\* ------------------------------------------------------------- inputs
CreateSpecs ==
  { [type |-> "cube", color |-> "#666666", position |-> Vec(0, One, 0),
     scale |-> Vec(One, One, One), rotation |-> Vec(0, 0, 0)] }

Patches == { [color |-> "#123456"] }

\* the shape words a create command accepts: six shapes and nine aliases
ShapeTokens == { validShapes[i] : i \in DOMAIN validShapes } \cup DOMAIN shapeAliases

\* "create " + shape + " " + color
CreateCommands ==
  { <<"create", " ", s, " ", c>> : s \in ShapeTokens, c \in DOMAIN colorMap }

\* the empty string and strings of whitespace only
BlankCommands == { <<>>, <<" ">>, <<" ", " ", " ">>, <<"\t", " ">> }

\* other things typed into the command line
OtherCommands ==
  { <<" ", "CREATE", " ", " ", "Cube", " ">>,
    <<"make", " ", "BALL", " ", "Red", " ", "at", " ", "1", " ", "2">>,
    <<"add", " ", "cone", " ", "size", " ", "0.5">>,
    <<"create">>,
    <<"create", " ", "hexagon">>,
    <<"big", " ", "cube">>,
    <<"fly">>,
    <<"move", " ", "up">>,
    <<"move", " ", "object", " ", "to", " ", "1", " ", "2", " ", "3">>,
    <<"move", " ", "left">>,
    <<"rotate", " ", "90">>,
    <<"turn">>,
    <<"scale", " ", "2">>,
    <<"scale", " ", "object", " ", "-2">>,
    <<"resize", " ", "it">>,
    <<"color", " ", "selected", " ", "gold">>,
    <<"paint", " ", "it">>,
    <<"select", " ", "red", " ", "cube">>,
    <<"delete">>,
    <<"remove", " ", "cube">>,
    <<"clear">> }

\* commands that do not start with a verb
FallbackCommands ==
  { <<"fly">>,
    <<"big", " ", "cube">>,
    <<"a", " ", "red", " ", "sphere">>,
    <<"nice", " ", "cylinder", " ", "please">>,
    <<"fly", " ", "cone">>,
    <<"huge", " ", "torus">>,
    <<"flat", " ", "plane", " ", "green">>,
    <<"cube", " ", "red">>,
    <<"sphere">>,
    <<"cone", " ", "blue">>,
    <<"hello", " ", "there">> }

\* commands with the verbs scale, resize and size
ScaleCommands ==
  { <<"scale">>,
    <<"scale", " ", "2">>,
    <<"scale", " ", "object", " ", "-2">>,
    <<"size", " ", "0">>,
    <<"resize", " ", "it">>,
    <<"resize", " ", "selected", " ", "3">>,
    <<"scale", " ", "object", " ", "0.5", " ", "3">>,
    <<"scale", " ", "it", " ", "2", " ", "-2">>,
    <<"size", " ", "-2", " ", "2">> }

\* commands with the verbs move and translate
MoveCommands ==
  { <<"move">>,
    <<"move", " ", "up">>,
    <<"move", " ", "object", " ", "down">>,
    <<"move", " ", "down", " ", "up">>,
    <<"translate", " ", "down", " ", "to", " ", "1", " ", "2">>,
    <<"translate", " ", "to", " ", "1", " ", "2">>,
    <<"move", " ", "object", " ", "to", " ", "1", " ", "2", " ", "3">>,
    <<"move", " ", "to", " ", "-2", " ", "0.5", " ", "far">>,
    <<"move", " ", "left">>,
    <<"move", " ", "to", " ", "1">>,
    <<"move", " ", "to", " ", "the", " ", "2">>,
    <<"move", " ", "3", " ", "2">>,
    <<"move", " ", "it", " ", "to">> }

\* rooms of the quick templates and of the custom dimension inputs
BuildRooms ==
  { [type |-> "bedroom",
     dimensions |-> [width |-> 4 * One, length |-> 5 * One, height |-> 3 * One]],
    [type |-> "living_room",
     dimensions |-> [width |-> 6 * One, length |-> 8 * One, height |-> 3 * One]],
    [type |-> "custom",
     dimensions |-> [width |-> 7 * One, length |-> 3 * One, height |-> 3 * One]] }

RoomTypes == { "bedroom" }
RoomDimensions == { [width |-> 4 * One, length |-> 5 * One, height |-> 3 * One] }
\* furniture the room designer offers (coffee_table is in neither table) and
\* the positions a caller passes: none, null, or a point
FurnishTypes == { "sofa", "bookshelf", "coffee_table" }
FurnishPositions == { Undefined, Null, Vec(0 - 2 * One, (2 * One) \div 5, 2 * One) }

FurnitureTypes == { "sofa" }
FurniturePositions == { Undefined }

FileNames == { "model", "" }

IdArgs == 1..MaxIds

\* a click on the floor of the first room, or on the empty canvas
PipeSelectIds == { 1, NullId }

\* updates that change the kind of an entity
KindPatches == { [type |-> "cube"], [type |-> "imported"] }

\* what the user types into the command line
PanelCommands ==
  { <<"create", " ", "cube", " ", "at", " ", "1", " ", "2", " ", "3">>,
    <<"create", " ", "sphere">>,
    <<"move", " ", "up">>,
    <<"move", " ", "object", " ", "down">>,
    <<"scale", " ", "2">>,
    <<"select", " ", "cube">>,
    <<"delete">>,
    <<" ", "clear", " ">>,
    <<"fly">>,
    <<" ">> }

\* a command of the command line that may be repeated without limit
RepeatedCommand == <<"clear">>

\* what the user writes to the assistant, character by character
ChatMessages ==
  { <<"M", "a", "k", "e", " ", "a", " ", "r", "e", "d", " ", "b", "a", "l", "l">>,
    <<"b", "i", "g", "g", "e", "r", " ", "p", "l", "e", "a", "s", "e">>,
    <<"c", "o", "l", "o", "r", " ", "i", "t", " ", "r", "e", "d">>,
    <<"m", "o", "v", "e", " ", "i", "t", " ", "u", "p">>,
    <<"r", "o", "t", "a", "t", "e", " ", "i", "t">>,
    <<" ">> }

\* names of blueprint image files: the pieces between the dots, and the dots
BlueprintFiles ==
  { <<"plan", ".", "png">>, <<"flat", ".", "v2", ".", "jpg">>, <<"sketch">>,
    <<".", "hidden">> }

ViewModes == { "2d", "3d" }

\* ---------------------------------------------------------------- Init
Init ==
  /\ objects = <<>>
  /\ selectedObject = Null
  /\ currentRoom = Null
  /\ floorPlan = Null
  /\ viewMode = "3d"
  /\ nextId = 1
  /\ nextRoom = 1
  /\ timers = {}
  /\ timerSeq = 0
  /\ now = 0
  /\ result = Undefined
  /\ last = Did("init", NullId)
  /\ history = <<>>
  /\ pending = {}

\* -------------------------------------------------------------- actions
\* Bound on the entities created one at a time; a room shell takes
\* ShellSize ids of its own.
UserCreated == nextId - 1 - ShellSize * (nextRoom - 1)
CanCreate == UserCreated < MaxIds

CreateObject(params) ==
  /\ CanCreate
  /\ LET st == createObject(Store, params)
     IN /\ objects' = st.objects
        /\ selectedObject' = st.selectedObject
        /\ nextId' = st.nextId
        /\ result' = st.ret
  /\ last' = Did("createObject", nextId)
  /\ UNCHANGED <<currentRoom, floorPlan, viewMode, nextRoom, timers, timerSeq, now, history, pending>>

UpdateObject(id, updates) ==
  /\ objects' = updateObjects(objects, id, updates)
  /\ selectedObject' = updateSelected(selectedObject, id, updates)
  /\ result' = Undefined
  /\ last' = DidOn("updateObject", id)
  /\ UNCHANGED <<currentRoom, floorPlan, viewMode, nextId, nextRoom, timers, timerSeq, now, history, pending>>

DeleteObject(id) ==
  /\ objects' = FilterOut(objects, id)
  /\ selectedObject' = deleteSelected(selectedObject, id)
  /\ result' = Undefined
  /\ last' = DidOn("deleteObject", id)
  /\ UNCHANGED <<currentRoom, floorPlan, viewMode, nextId, nextRoom, timers, timerSeq, now, history, pending>>

DuplicateObject(id) ==
  LET originalObject == Find(objects, id)
  IN /\ IF ~IsEntity(originalObject)
        THEN /\ result' = Null
             /\ UNCHANGED <<objects, selectedObject, nextId>>
        ELSE /\ CanCreate
             /\ LET st == createObject(Store, DuplicateParams(originalObject))
                IN /\ objects' = st.objects
                   /\ selectedObject' = st.selectedObject
                   /\ nextId' = st.nextId
                   /\ result' = st.ret
     /\ last' = DidOn("duplicateObject", id)
     /\ UNCHANGED <<currentRoom, floorPlan, viewMode, nextRoom, timers, timerSeq, now, history, pending>>

SelectObject(id) ==
  /\ selectedObject' = objectToSelect(objects, id)
  /\ result' = Undefined
  /\ last' = DidOn("selectObject", id)
  /\ UNCHANGED <<objects, currentRoom, floorPlan, viewMode, nextId, nextRoom, timers, timerSeq, now, history, pending>>

\* variant: clearing the scene also cancels the pending stages
ClearScene_cancels ==
  /\ objects' = <<>>
  /\ selectedObject' = Null
  /\ timers' = {}
  /\ result' = Undefined
  /\ last' = Did("clearScene", NullId)
  /\ UNCHANGED <<currentRoom, floorPlan, viewMode, nextId, nextRoom, timerSeq, now, history, pending>>

\* variant: clearing the scene keeps the selection
ClearScene_keepsSelection ==
  /\ objects' = <<>>
  /\ result' = Undefined
  /\ last' = Did("clearScene", NullId)
  /\ UNCHANGED <<selectedObject, currentRoom, floorPlan, viewMode, nextId, nextRoom,
                 timers, timerSeq, now, history, pending>>

\* variant: clearing the scene also leaves the current room
ClearScene_leavesRoom ==
  /\ objects' = <<>>
  /\ selectedObject' = Null
  /\ currentRoom' = Null
  /\ result' = Undefined
  /\ last' = Did("clearScene", NullId)
  /\ UNCHANGED <<floorPlan, viewMode, nextId, nextRoom, timers, timerSeq, now, history, pending>>

ClearScene ==
  /\ objects' = <<>>
  /\ selectedObject' = Null
  /\ result' = Undefined
  /\ last' = Did("clearScene", NullId)
  /\ UNCHANGED <<currentRoom, floorPlan, viewMode, nextId, nextRoom, timers, timerSeq, now, history, pending>>

ImportModel(fileName) ==
  /\ CanCreate
  /\ LET st == createObject(Store,
                 [type |-> "imported", modelPath |-> "blob:model",
                  name |-> Str(fileName), color |-> "#ffffff",
                  position |-> Vec(0, One, 0),
                  scale |-> Vec((5 * One) \div 2, (5 * One) \div 2, (5 * One) \div 2),
                  rotation |-> Vec(0, 0, 0)])
     IN /\ objects' = st.objects
        /\ selectedObject' = st.selectedObject
        /\ nextId' = st.nextId
        /\ result' = st.ret
  /\ last' = Did("importModel", nextId)
  /\ UNCHANGED <<currentRoom, floorPlan, viewMode, nextRoom, timers, timerSeq, now, history, pending>>

\* a call of createRoom, by the room designer or a room template
CallCreateRoom(type, dimensions) ==
  /\ LET st == createRoom(Store, type, dimensions, nextRoom)
     IN /\ objects' = st.objects
        /\ selectedObject' = st.selectedObject
        /\ nextId' = st.nextId
        /\ currentRoom' = st.ret
        /\ result' = st.ret
  /\ nextRoom' = nextRoom + 1
  /\ last' = Did("createRoom", nextRoom)
  /\ UNCHANGED <<floorPlan, viewMode, timers, timerSeq, now, history, pending>>

CreateRoom(type, dimensions) ==
  /\ nextRoom <= MaxRooms
  /\ CallCreateRoom(type, dimensions)

SelectRoom(roomId) ==
  /\ selectedObject' = Null
  /\ result' = Undefined
  /\ last' = Did("selectRoom", roomId)
  /\ UNCHANGED <<objects, currentRoom, floorPlan, viewMode, nextId, nextRoom, timers, timerSeq, now, history, pending>>

AddFurniture(roomId, furnitureType, position) ==
  /\ CanCreate
  /\ LET st == addFurniture(Store, roomId, furnitureType, position)
     IN /\ objects' = st.objects
        /\ selectedObject' = st.selectedObject
        /\ nextId' = st.nextId
        /\ result' = st.ret
  /\ last' = Did("addFurniture", nextId)
  /\ UNCHANGED <<currentRoom, floorPlan, viewMode, nextRoom, timers, timerSeq, now, history, pending>>

\* variant: the call keeps the entities of the scene it starts from
CallAnalyze_keepsScene ==
  /\ LET st == createRoom(Store, "custom", ApartmentDimensions, nextRoom)
     IN /\ objects' = st.objects
        /\ selectedObject' = st.selectedObject
        /\ nextId' = st.nextId
        /\ currentRoom' = st.ret
        /\ timers' = timers \cup Scheduled(st.ret.id, now, timerSeq)
  /\ timerSeq' = timerSeq + NumStages
  /\ nextRoom' = nextRoom + 1
  /\ result' = Undefined
  /\ last' = Did("analyzeAndCreateBlueprint", nextRoom)
  /\ UNCHANGED <<floorPlan, viewMode, now, history, pending>>

\* variant: the call runs its first stage itself before it returns
CallAnalyze_runsFirstStage ==
  /\ LET cleared == [objects |-> <<>>, selectedObject |-> Null, nextId |-> nextId]
         shell == createRoom(cleared, "custom", ApartmentDimensions, nextRoom)
         st == runStage(shell, 1, nextRoom)
     IN /\ objects' = st.objects
        /\ selectedObject' = st.selectedObject
        /\ nextId' = st.nextId
        /\ currentRoom' = shell.ret
        /\ timers' = timers \cup
                       { t \in Scheduled(nextRoom, now, timerSeq) : t.stage # 1 }
  /\ timerSeq' = timerSeq + NumStages
  /\ nextRoom' = nextRoom + 1
  /\ result' = Undefined
  /\ last' = Did("analyzeAndCreateBlueprint", nextRoom)
  /\ UNCHANGED <<floorPlan, viewMode, now, history, pending>>

\* a call of analyzeAndCreateBlueprint: it returns once the stages are
\* scheduled
CallAnalyze ==
  /\ LET cleared == [objects |-> <<>>, selectedObject |-> Null, nextId |-> nextId]
         st == createRoom(cleared, "custom", ApartmentDimensions, nextRoom)
     IN /\ objects' = st.objects
        /\ selectedObject' = st.selectedObject
        /\ nextId' = st.nextId
        /\ currentRoom' = st.ret
        /\ timers' = timers \cup Scheduled(st.ret.id, now, timerSeq)
  /\ timerSeq' = timerSeq + NumStages
  /\ nextRoom' = nextRoom + 1
  /\ result' = Undefined
  /\ last' = Did("analyzeAndCreateBlueprint", nextRoom)
  /\ UNCHANGED <<floorPlan, viewMode, now, history, pending>>

AnalyzeAndCreateBlueprint ==
  /\ nextRoom <= MaxSynth
  /\ CallAnalyze

\* the callback of timer t runs
RunTimer(t) ==
  /\ LET st == runStage(Store, t.stage, t.room)
     IN /\ objects' = st.objects
        /\ selectedObject' = st.selectedObject
        /\ nextId' = st.nextId
        /\ timers' = timers \ {t}
        /\ last' = Did("stage", t.seq)
  /\ result' = Undefined
  /\ UNCHANGED <<currentRoom, floorPlan, viewMode, nextRoom, timerSeq, now, history, pending>>

\* the event loop runs the callback of the next expired timer
FireTimer ==
  /\ timers # {}
  /\ NextTimer.due <= now
  /\ RunTimer(NextTimer)

\* time passes until the next deadline
Tick ==
  /\ timers # {}
  /\ NextTimer.due > now
  /\ now' = NextTimer.due
  /\ UNCHANGED <<objects, selectedObject, currentRoom, floorPlan, viewMode,
                 nextId, nextRoom, timers, timerSeq, result, last, history, pending>>

\* variant: the export keeps the object URL of every entity
exportObject_keepsPath(obj) == obj

\* { ...obj, modelPath: obj.type === 'imported' ? undefined : obj.modelPath }
\* as JSON.stringify writes it: a property whose value is undefined is left out
exportObject(obj) ==
  IF obj.type = "imported" \/ "modelPath" \notin DOMAIN obj
  THEN Without(obj, "modelPath")
  ELSE obj

\* the scene is written to a file
ExportScene ==
  /\ result' = [objects |-> [i \in DOMAIN objects |-> exportObject(objects[i])],
                timestamp |-> now,
                version |-> "1.0"]
  /\ last' = Did("exportScene", NullId)
  /\ UNCHANGED <<objects, selectedObject, currentRoom, floorPlan, viewMode,
                 nextId, nextRoom, timers, timerSeq, now, history, pending>>

\* the command history keeps the 20 most recent commands
HistoryLimit == 20

\* variant: a command is recorded at the end of the history
pushHistory_atEnd(prev, command) ==
  LET all == prev \o <<command>>
  IN IF Len(all) > HistoryLimit THEN Tail(all) ELSE all

\* [command, ...prev].slice(0, 20)
pushHistory(prev, command) ==
  LET all == <<command>> \o prev
  IN IF Len(all) > HistoryLimit THEN SubSeq(all, 1, HistoryLimit) ELSE all

\* the parameters the command line creates an entity with
panelCreateParams(action) ==
  [type |-> action.shape,
   color |-> IF "color" \in DOMAIN action THEN action.color ELSE "#666666",
   position |-> IF "position" \in DOMAIN action THEN action.position
                ELSE Vec(0, One, 0),
   scale |-> IF "scale" \in DOMAIN action THEN action.scale
             ELSE Vec(One, One, One),
   rotation |-> Vec(0, 0, 0)]

\* the updates the command line derives from a modify action
panelUpdates(action) ==
  IF action.property = "color" /\ "color" \in DOMAIN action
  THEN [color |-> action.color]
  ELSE IF action.property = "scale" /\ "scale" \in DOMAIN action
  THEN [scale |-> action.scale]
  ELSE IF action.property = "position" /\ "position" \in DOMAIN action
  THEN [position |-> action.position]
  ELSE IF action.property = "rotation" /\ "rotation" \in DOMAIN action
  THEN [rotation |-> action.rotation]
  ELSE <<>>

\* Enter in the command line
ExecuteCommand(command) ==
  LET r == parseCommand(trim(command))
      ok == r.success /\ "action" \in DOMAIN r
  IN /\ last' = Did("executeCommand", command)
     /\ IF trim(command) = <<>>
        THEN /\ result' = Undefined
             /\ UNCHANGED <<objects, selectedObject, nextId, history>>
        ELSE /\ result' = r
             /\ IF ok /\ r.action.type = "create"
                THEN /\ CanCreate
                     /\ LET st == createObject(Store, panelCreateParams(r.action))
                        IN /\ objects' = st.objects
                           /\ selectedObject' = st.selectedObject
                           /\ nextId' = st.nextId
                     /\ history' = pushHistory(history, command)
                ELSE IF /\ ok /\ r.action.type = "modify"
                        /\ IsEntity(selectedObject) /\ "property" \in DOMAIN r.action
                THEN /\ objects' = updateObjects(objects, selectedObject.id,
                                                 panelUpdates(r.action))
                     /\ selectedObject' = updateSelected(selectedObject, selectedObject.id,
                                                         panelUpdates(r.action))
                     /\ history' = pushHistory(history, command)
                     /\ UNCHANGED nextId
                ELSE IF ok /\ r.action.type \in {"select", "delete", "clear"}
                THEN /\ history' = pushHistory(history, command)
                     /\ UNCHANGED <<objects, selectedObject, nextId>>
                ELSE UNCHANGED <<objects, selectedObject, nextId, history>>
     /\ UNCHANGED <<currentRoom, floorPlan, viewMode, nextRoom, timers, timerSeq,
                    now, pending>>

\* ------------------------------------------------------------ assistant
\* A message is a sequence of characters.
\* String.prototype.includes
textIncludes(text, part) ==
  \E i \in 1..(Len(text) - Len(part) + 1) : SubSeq(text, i, i + Len(part) - 1) = part

\* array.find(w => text.includes(w)) || fallback, over named words
RECURSIVE findWord(_, _, _)
findWord(words, text, fallback) ==
  IF words = <<>> THEN fallback
  ELSE IF textIncludes(text, Head(words).text) THEN Head(words).name
  ELSE findWord(Tail(words), text, fallback)

detectIntent(message) ==
  LET lower == toLowerCase(message)
  IN IF \/ textIncludes(lower, <<"h", "e", "l", "l", "o">>)
        \/ textIncludes(lower, <<"h", "i">>)
        \/ textIncludes(lower, <<"h", "e", "y">>)
     THEN "greeting"
     ELSE IF \/ textIncludes(lower, <<"h", "e", "l", "p">>)
             \/ textIncludes(lower, <<"w", "h", "a", "t", " ", "c", "a", "n", " ", "y", "o", "u", " ", "d", "o">>)
             \/ textIncludes(lower, <<"h", "o", "w">>)
     THEN "help"
     ELSE IF \/ textIncludes(lower, <<"c", "r", "e", "a", "t", "e">>)
             \/ textIncludes(lower, <<"a", "d", "d">>)
             \/ textIncludes(lower, <<"m", "a", "k", "e">>)
     THEN "create"
     ELSE IF \/ textIncludes(lower, <<"b", "i", "g", "g", "e", "r">>)
             \/ textIncludes(lower, <<"s", "m", "a", "l", "l", "e", "r">>)
             \/ textIncludes(lower, <<"s", "c", "a", "l", "e">>)
             \/ textIncludes(lower, <<"r", "e", "s", "i", "z", "e">>)
             \/ textIncludes(lower, <<"c", "o", "l", "o", "r">>)
             \/ textIncludes(lower, <<"m", "o", "v", "e">>)
             \/ textIncludes(lower, <<"r", "o", "t", "a", "t", "e">>)
     THEN "modify"
     ELSE IF \/ textIncludes(lower, <<"c", "l", "e", "a", "r">>)
             \/ textIncludes(lower, <<"d", "e", "l", "e", "t", "e">>)
             \/ textIncludes(lower, <<"r", "e", "m", "o", "v", "e">>)
     THEN "scene"
     ELSE "general"

createShapes ==
  <<[name |-> "cube", text |-> <<"c", "u", "b", "e">>],
    [name |-> "sphere", text |-> <<"s", "p", "h", "e", "r", "e">>],
    [name |-> "cylinder", text |-> <<"c", "y", "l", "i", "n", "d", "e", "r">>],
    [name |-> "cone", text |-> <<"c", "o", "n", "e">>],
    [name |-> "torus", text |-> <<"t", "o", "r", "u", "s">>],
    [name |-> "plane", text |-> <<"p", "l", "a", "n", "e">>]>>

createColors ==
  <<[name |-> "red", text |-> <<"r", "e", "d">>],
    [name |-> "blue", text |-> <<"b", "l", "u", "e">>],
    [name |-> "green", text |-> <<"g", "r", "e", "e", "n">>],
    [name |-> "yellow", text |-> <<"y", "e", "l", "l", "o", "w">>],
    [name |-> "orange", text |-> <<"o", "r", "a", "n", "g", "e">>],
    [name |-> "purple", text |-> <<"p", "u", "r", "p", "l", "e">>],
    [name |-> "pink", text |-> <<"p", "i", "n", "k">>],
    [name |-> "cyan", text |-> <<"c", "y", "a", "n">>]>>

modifyColors ==
  <<[name |-> "red", text |-> <<"r", "e", "d">>],
    [name |-> "blue", text |-> <<"b", "l", "u", "e">>],
    [name |-> "green", text |-> <<"g", "r", "e", "e", "n">>],
    [name |-> "yellow", text |-> <<"y", "e", "l", "l", "o", "w">>],
    [name |-> "orange", text |-> <<"o", "r", "a", "n", "g", "e">>],
    [name |-> "purple", text |-> <<"p", "u", "r", "p", "l", "e">>]>>

\* no command in the response
NoCommand == <<>>

\* the command of the response to a create request
generateCreateResponse(message) ==
  LET lower == toLowerCase(message)
      detectedShape == findWord(createShapes, lower, "cube")
      detectedColor == findWord(createColors, lower, "gray")
  IN IF \/ textIncludes(lower, <<"h", "o", "u", "s", "e">>)
        \/ textIncludes(lower, <<"b", "u", "i", "l", "d", "i", "n", "g">>)
     THEN <<"create", " ", "cube", " ", "brown">>
     ELSE IF \/ textIncludes(lower, <<"c", "a", "r">>)
             \/ textIncludes(lower, <<"v", "e", "h", "i", "c", "l", "e">>)
     THEN <<"create", " ", "cube", " ", "blue">>
     ELSE <<"create", " ", detectedShape, " ", detectedColor>>

\* the command of the response to a modify request
generateModifyResponse(message, context) ==
  LET lower == toLowerCase(message)
  IN IF ~IsEntity(context.selectedObject)
     THEN NoCommand
     ELSE IF \/ textIncludes(lower, <<"b", "i", "g", "g", "e", "r">>)
             \/ textIncludes(lower, <<"l", "a", "r", "g", "e", "r">>)
     THEN <<"scale", " ", "object", " ", "1.5">>
     ELSE IF \/ textIncludes(lower, <<"s", "m", "a", "l", "l", "e", "r">>)
             \/ textIncludes(lower, <<"t", "i", "n", "y">>)
     THEN <<"scale", " ", "object", " ", "0.7">>
     ELSE IF \/ textIncludes(lower, <<"c", "o", "l", "o", "r">>)
             \/ textIncludes(lower, <<"p", "a", "i", "n", "t">>)
     THEN <<"color", " ", "object", " ", findWord(modifyColors, lower, "blue")>>
     ELSE IF \/ textIncludes(lower, <<"m", "o", "v", "e">>)
             \/ textIncludes(lower, <<"u", "p">>)
             \/ textIncludes(lower, <<"d", "o", "w", "n">>)
     THEN <<"move", " ", "object", " ", "up">>
     ELSE IF \/ textIncludes(lower, <<"r", "o", "t", "a", "t", "e">>)
             \/ textIncludes(lower, <<"t", "u", "r", "n">>)
     THEN <<"rotate", " ", "object", " ", "45">>
     ELSE <<"scale", " ", "object", " ", "1.2">>

\* the command of the response, once the delay is over
generateAIResponse(message, context) ==
  LET intent == detectIntent(message)
  IN IF intent = "create" THEN generateCreateResponse(message)
     ELSE IF intent = "modify" THEN generateModifyResponse(message, context)
     ELSE NoCommand

\* variant: position and rotation commands are passed on as well
assistantUpdates_allProperties(action) == panelUpdates(action)

\* the updates the assistant derives from a modify action
assistantUpdates(action) ==
  IF action.property = "color" /\ "color" \in DOMAIN action
  THEN [color |-> action.color]
  ELSE IF action.property = "scale" /\ "scale" \in DOMAIN action
  THEN [scale |-> action.scale]
  ELSE <<>>

\* a number no request in flight carries
FreeSeq == CHOOSE n \in 1..(Cardinality(pending) + 1) : \A q \in pending : q.seq # n

\* the user sends a message: the request holds the selection of this moment
SendMessage(input) ==
  /\ IF trim(input) = <<>>
     THEN UNCHANGED pending
     ELSE pending' = pending \cup {[seq |-> FreeSeq, message |-> trim(input),
                                   selectedObject |-> selectedObject]}
  /\ result' = Undefined
  /\ last' = Did("sendMessage", NullId)
  /\ UNCHANGED <<objects, selectedObject, currentRoom, floorPlan, viewMode,
                 nextId, nextRoom, timers, timerSeq, now, history>>

\* variant: the response acts on the selection of the moment it arrives
Captured_atArrival(request) == selectedObject

\* the selection a request acts on
Captured(request) == request.selectedObject

\* the response to a request arrives and its command is executed
ReceiveResponse(request) ==
  LET command == generateAIResponse(request.message,
                                    [selectedObject |-> request.selectedObject])
      r == parseCommand(command)
      ok == command # NoCommand /\ r.success /\ "action" \in DOMAIN r
      target == Captured(request)
  IN /\ request \in pending
     /\ pending' = pending \ {request}
     /\ result' = IF command = NoCommand THEN Undefined ELSE r
     /\ last' = [op |-> "aiResponse",
                 id |-> IF IsEntity(request.selectedObject)
                        THEN request.selectedObject.id ELSE NullId,
                 hit |-> IsEntity(request.selectedObject)
                         /\ request.selectedObject.id \in Ids(objects)]
     /\ IF ok /\ r.action.type = "create"
        THEN /\ nextId <= MaxChat
             /\ LET st == createObject(Store, panelCreateParams(r.action))
                IN /\ objects' = st.objects
                   /\ selectedObject' = st.selectedObject
                   /\ nextId' = st.nextId
        ELSE IF /\ ok /\ r.action.type = "modify"
                /\ IsEntity(target) /\ "property" \in DOMAIN r.action
        THEN /\ objects' = updateObjects(objects, target.id, assistantUpdates(r.action))
             /\ selectedObject' = updateSelected(selectedObject, target.id,
                                                 assistantUpdates(r.action))
             /\ UNCHANGED nextId
        ELSE UNCHANGED <<objects, selectedObject, nextId>>
     /\ UNCHANGED <<currentRoom, floorPlan, viewMode, nextRoom, timers, timerSeq,
                    now, history>>

\* file.name.split('.')[0]
FirstSegment(fileName) == IF Head(fileName) = "." THEN "" ELSE Head(fileName)

SetViewMode(mode) ==
  /\ viewMode' = mode
  /\ result' = Undefined
  /\ last' = Did("setViewMode", NullId)
  /\ UNCHANGED <<objects, selectedObject, currentRoom, floorPlan, nextId, nextRoom,
                 timers, timerSeq, now, history, pending>>

ImportBlueprint(fileName) ==
  /\ floorPlan' = [id |-> now,
                   name |-> FirstSegment(fileName),
                   rooms |-> <<>>,
                   scale |-> One,
                   imageUrl |-> "blob:blueprint",
                   dimensions |-> [width |-> 20 * One, length |-> 20 * One]]
  /\ result' = floorPlan'
  /\ last' = Did("importBlueprint", NullId)
  /\ UNCHANGED <<objects, selectedObject, currentRoom, viewMode, nextId, nextRoom,
                 timers, timerSeq, now, history, pending>>

\* the command line or the assistant has a command parsed
ParseCommand(command) ==
  /\ result' = parseCommand(command)
  /\ last' = Did("parseCommand", command)
  /\ UNCHANGED <<objects, selectedObject, currentRoom, floorPlan, viewMode,
                 nextId, nextRoom, timers, timerSeq, now, history, pending>>

Next ==
  \/ \E params \in CreateSpecs : CreateObject(params)
  \/ \E id \in IdArgs, updates \in Patches : UpdateObject(id, updates)
  \/ \E id \in IdArgs : DeleteObject(id)
  \/ \E id \in IdArgs : DuplicateObject(id)
  \/ \E id \in IdArgs \cup {NullId} : SelectObject(id)
  \/ ClearScene
  \/ \E fileName \in FileNames : ImportModel(fileName)

Spec == Init /\ [][Next]_vars

\* The store together with the room synthesis actions.
NextRoom ==
  \/ Next /\ UserCreated' <= MaxRoomIds
  \/ \E type \in RoomTypes, dimensions \in RoomDimensions : CreateRoom(type, dimensions)
  \/ \E roomId \in 1..MaxRooms \cup {NullId} : SelectRoom(roomId)
  \/ \E furnitureType \in FurnitureTypes, position \in FurniturePositions :
       /\ IsEntity(currentRoom)
       /\ AddFurniture(currentRoom.id, furnitureType, position)
       /\ UserCreated' <= MaxRoomIds

SpecRoom == Init /\ [][NextRoom]_vars

\* The pipeline with the scene operations a user can interleave with it.
NextPipe ==
  \/ AnalyzeAndCreateBlueprint
  \/ FireTimer
  \/ Tick
  \/ ClearScene
  \/ \E id \in PipeSelectIds : SelectObject(id)

SpecPipe == Init /\ [][NextPipe]_vars

\* The event loop runs every expired timer and time does not stop.
SpecPipeFair == SpecPipe /\ WF_vars(FireTimer) /\ WF_vars(Tick)

\* One invocation at a time, started from any scene the store actions build,
\* with nothing else running while its stages are pending.
NextSolo ==
  \/ /\ timers = {}
     /\ nextRoom = 1
     /\ \/ \E params \in CreateSpecs : CreateObject(params)
        \/ \E fileName \in FileNames : ImportModel(fileName)
        \/ \E id \in IdArgs : DeleteObject(id)
        \/ \E id \in IdArgs \cup {NullId} : SelectObject(id)
  \/ timers = {} /\ AnalyzeAndCreateBlueprint
  \/ FireTimer
  \/ Tick

SpecSolo == Init /\ [][NextSolo]_vars

SpecSoloFair == SpecSolo /\ WF_vars(FireTimer) /\ WF_vars(Tick)

\* The stage callbacks of one invocation applied in any order.
NextReorder ==
  \/ timers = {} /\ AnalyzeAndCreateBlueprint
  \/ \E t \in timers : RunTimer(t)

SpecReorder == Init /\ [][NextReorder]_vars

\* The importer dialog: blueprint analysis and quick room templates, with the
\* stage timers and clearScene.
NextMix ==
  \/ nextRoom <= MaxMix /\ CallAnalyze
  \/ /\ nextRoom <= MaxMix
     /\ \E type \in RoomTypes, dimensions \in RoomDimensions :
          CallCreateRoom(type, dimensions)
  \/ FireTimer
  \/ Tick
  \/ ClearScene

SpecMix == Init /\ [][NextMix]_vars

\* Rooms built one after another in a scene that also holds other entities.
NextBuild ==
  \/ \E params \in CreateSpecs : CreateObject(params)
  \/ /\ nextRoom <= MaxBuild
     /\ \E r \in BuildRooms : CallCreateRoom(r.type, r.dimensions)

SpecBuild == Init /\ [][NextBuild]_vars

\* Rooms and the furniture placed in them.
NextFurnish ==
  \/ /\ nextRoom <= MaxBuild
     /\ \E type \in RoomTypes, dimensions \in RoomDimensions :
          CallCreateRoom(type, dimensions)
  \/ /\ UserCreated < MaxFurnish
     /\ \E roomId \in 1..(nextRoom - 1), furnitureType \in FurnishTypes,
           position \in FurnishPositions :
          AddFurniture(roomId, furnitureType, position)

SpecFurnish == Init /\ [][NextFurnish]_vars

\* The parser applied to one command after another.
NextParse ==
  \E command \in CreateCommands \cup BlankCommands \cup OtherCommands
                   \cup FallbackCommands \cup ScaleCommands \cup MoveCommands :
    ParseCommand(command)

SpecParse == Init /\ [][NextParse]_vars

\* The store API called with any patch its type admits: Partial<ModelingObject>
\* has an id property.
IdPatches == { [id |-> i] : i \in IdArgs }

NextApi ==
  \/ \E params \in CreateSpecs : CreateObject(params)
  \/ \E id \in IdArgs, updates \in Patches \cup IdPatches : UpdateObject(id, updates)
  \/ \E id \in IdArgs : DeleteObject(id)
  \/ \E id \in IdArgs : DuplicateObject(id)
  \/ \E id \in IdArgs \cup {NullId} : SelectObject(id)
  \/ ClearScene

SpecApi == Init /\ [][NextApi]_vars

\* Scenes of created, imported, duplicated and re-typed entities, exported
\* at any moment.
NextExport ==
  \/ \E params \in CreateSpecs : CreateObject(params)
  \/ \E fileName \in FileNames : ImportModel(fileName)
  \/ \E id \in IdArgs, updates \in KindPatches : UpdateObject(id, updates)
  \/ \E id \in IdArgs : DuplicateObject(id)
  \/ \E id \in IdArgs \cup {NullId} : SelectObject(id)
  \/ ExportScene

SpecExport == Init /\ [][NextExport]_vars

\* The command line alone: a few varied commands, then one command repeated
\* until the history is full.
NextPanel ==
  \/ /\ Len(history) < MaxPanel
     /\ \E command \in PanelCommands : ExecuteCommand(command)
  \/ ExecuteCommand(RepeatedCommand)

SpecPanel == Init /\ [][NextPanel]_vars

\* The assistant at work while the user edits the scene: responses arrive in
\* any order, after any number of user actions.
NextAssistant ==
  \/ /\ nextId <= MaxChat
     /\ \E params \in CreateSpecs : CreateObject(params)
  \/ \E id \in 1..MaxChat \cup {NullId} : SelectObject(id)
  \/ \E id \in 1..MaxChat : DeleteObject(id)
  \/ ClearScene
  \/ /\ Cardinality(pending) < MaxPending
     /\ \E input \in ChatMessages : SendMessage(input)
  \/ \E request \in pending : ReceiveResponse(request)

SpecAssistant == Init /\ [][NextAssistant]_vars

\* The scene cleared with a room built, a blueprint imported and either view.
NextFrame ==
  \/ \E params \in CreateSpecs : CreateObject(params)
  \/ \E id \in IdArgs \cup {NullId} : SelectObject(id)
  \/ \E type \in RoomTypes, dimensions \in RoomDimensions : CreateRoom(type, dimensions)
  \/ \E mode \in ViewModes : SetViewMode(mode)
  \/ \E fileName \in BlueprintFiles : ImportBlueprint(fileName)
  \/ ClearScene

SpecFrame == Init /\ [][NextFrame]_vars

\* ================================================================ claims
IdsUnique(objs) ==
  \A i, j \in 1..Len(objs) : objs[i].id = objs[j].id => i = j

IndexOf(objs, id) == CHOOSE i \in 1..Len(objs) : objs[i].id = id

RemoveAt(objs, i) == SubSeq(objs, 1, i - 1) \o SubSeq(objs, i + 1, Len(objs))

\* C1: in every reachable state the selection is null or an entity whose id
\* is the id of an entity in the collection.
C1_SelectionNullOrPresent ==
  \/ selectedObject = Null
  \/ IsEntity(selectedObject) /\ selectedObject.id \in Ids(objects)

\* C2: the selected entity always equals the collection's entry with its id,
\* and after updateObject(id, updates) on the selected entity the selection
\* has every patched field.
C2_SelectionFresh ==
  /\ [](IsEntity(selectedObject) => Find(objects, selectedObject.id) = selectedObject)
  /\ [][ \A id \in IdArgs, updates \in Patches :
           (UpdateObject(id, updates) /\ SelectedIs(selectedObject, id))
             => /\ IsEntity(selectedObject')
                /\ \A k \in DOMAIN updates : selectedObject'[k] = updates[k] ]_vars

C2_Witness ==
  /\ last.op = "updateObject"
  /\ SelectedIs(selectedObject, last.id)
  /\ selectedObject.color = "#123456"
  /\ Len(objects) >= 2

\* the step is the callback of timer t: it appends the entities of its stage,
\* each with the room id the timer was scheduled with
StageAppends(t) ==
  LET expected == StageParams(t.stage, t.room)
  IN /\ last'.id = t.seq
     /\ Len(objects') = Len(objects) + Len(expected)
     /\ SubSeq(objects', 1, Len(objects)) = objects
     /\ \A i \in 1..Len(expected) :
          /\ objects'[Len(objects) + i].room = t.room
          /\ Without(objects'[Len(objects) + i], "id") = expected[i]

\* C3: clearScene cancels no pending stage; a pending stage leaves the timer
\* queue only by running, and when it runs it appends its entities, all
\* carrying the id of the room its invocation created, whatever happened to
\* the scene in between; every stage pending when the scene is cleared does
\* run later.
C3_StagesSurviveClear ==
  /\ [][last'.op = "clearScene" => timers' = timers]_vars
  /\ [][(timers \ timers') # {} =>
          /\ last'.op = "stage"
          /\ timers \ timers' = {NextTimer}
          /\ StageAppends(NextTimer)
          /\ objects' # <<>>]_vars
  /\ (last.op = "clearScene" /\ timers # {}) ~> (timers = {})

C3_Witness ==
  /\ last.op = "stage"
  /\ timers # {}
  /\ Len(objects) = Len(StageParams(2, 1))
  /\ \A i \in 1..Len(objects) : objects[i].room = 1
  /\ ~IsEntity(currentRoom) \/ currentRoom.id = 1

\* C4: no two entities share an id, and updateObject never changes the id of
\* an entity.
C4_IdsUniqueImmutable ==
  [][ /\ IdsUnique(objects')
      /\ last'.op = "updateObject" =>
           /\ Len(objects') = Len(objects)
           /\ \A i \in 1..Len(objects) : objects'[i].id = objects[i].id ]_vars

\* C5: createObject(params) appends one entity with the fields of params and
\* an id no present entity has, selects and returns it, keeps the other
\* entities, and a lookup by the returned id finds the returned entity.
C5_CreateAppends ==
  [][ last'.op = "createObject" =>
        /\ Len(objects') = Len(objects) + 1
        /\ SubSeq(objects', 1, Len(objects)) = objects
        /\ LET e == objects'[Len(objects')]
           IN /\ e.id \notin Ids(objects)
              /\ Without(e, "id") \in CreateSpecs
              /\ selectedObject' = e
              /\ result' = e
              /\ Find(objects', result'.id) = result' ]_vars

C5_Witness ==
  /\ last.op = "createObject"
  /\ Len(objects) >= 2
  /\ result = objects[Len(objects)]
  /\ selectedObject = result

\* C6: deleteObject(id) of a present id removes that entity and only it,
\* keeps the order of the others, and sets the selection to null if the
\* deleted entity was selected and leaves it unchanged otherwise.
C6_DeleteRemoves ==
  [][ (last'.op = "deleteObject" /\ last'.id \in Ids(objects)) =>
        /\ last'.id \notin Ids(objects')
        /\ objects' = RemoveAt(objects, IndexOf(objects, last'.id))
        /\ selectedObject' = IF SelectedIs(selectedObject, last'.id)
                             THEN Null ELSE selectedObject ]_vars

C6_Witness ==
  /\ last.op = "deleteObject"
  /\ last.hit
  /\ selectedObject = Null
  /\ Len(objects) >= 2

\* C7: updateObject, deleteObject and duplicateObject of an id that is not in
\* the collection change neither the collection nor the selection, and
\* duplicateObject returns null.
C7_AbsentIdNoOp ==
  [][ (last'.op \in {"updateObject", "deleteObject", "duplicateObject"}
         /\ last'.id \notin Ids(objects)) =>
        /\ objects' = objects
        /\ selectedObject' = selectedObject
        /\ last'.op = "duplicateObject" => result' = Null ]_vars

C7_Witness ==
  /\ last.op = "duplicateObject"
  /\ ~last.hit
  /\ result = Null
  /\ IsEntity(selectedObject)

\* the fields the duplicate of original must have, id aside, when a name is
\* suffixed whenever the original has one
ClaimedDuplicate(original) ==
  LET moved == Merge(Without(original, "id"),
                     [position |-> Vec(original.position.x + One,
                                       original.position.y,
                                       original.position.z + One)])
  IN IF "name" \in DOMAIN original
     THEN Merge(moved, [name |-> WithCopy(original.name)])
     ELSE moved

\* the same when a name is suffixed only if it is a non-empty string and the
\* duplicate of an entity with an empty or missing name has no name
ActualDuplicate(original) ==
  LET moved == Merge(Without(original, "id"),
                     [position |-> Vec(original.position.x + One,
                                       original.position.y,
                                       original.position.z + One)])
  IN IF "name" \in DOMAIN original /\ Truthy(original.name)
     THEN Merge(moved, [name |-> WithCopy(original.name)])
     ELSE Without(moved, "name")

DuplicateAdds(expected(_)) ==
  (last'.op = "duplicateObject" /\ last'.id \in Ids(objects)) =>
    LET original == Find(objects, last'.id)
        copy == objects'[Len(objects')]
    IN /\ Len(objects') = Len(objects) + 1
       /\ SubSeq(objects', 1, Len(objects)) = objects
       /\ copy.id \notin Ids(objects)
       /\ Without(copy, "id") = expected(original)
       /\ selectedObject' = copy
       /\ result' = copy

\* C8 as stated: duplicateObject(id) of a present entity adds one entity with
\* a new id, position (x+1, y, z+1), the name suffixed with " Copy" when the
\* original had a name and every other field equal; it selects the copy and
\* keeps the original.
C8_DuplicateAsClaimed == [][DuplicateAdds(ClaimedDuplicate)]_vars

\* C8 amended: the name is suffixed with " Copy" when the original's name is
\* a non-empty string; the copy of an entity whose name is empty or missing
\* has no name.
C8_DuplicateAmended == [][DuplicateAdds(ActualDuplicate)]_vars

\* the copy of an imported model with an empty name: moved, selected, unnamed
C8_Witness ==
  /\ last.op = "duplicateObject"
  /\ last.hit
  /\ IsEntity(result)
  /\ selectedObject = result
  /\ result.type = "imported"
  /\ "name" \notin DOMAIN result
  /\ result.position = Vec(One, One, One)
  /\ \E i \in 1..Len(objects) :
       /\ objects[i].id = last.id
       /\ objects[i].name = Str("")
       /\ objects[i].position = Vec(0, One, 0)

\* C9: after clearScene the collection is empty and the selection is null,
\* both in the one step clearScene takes.
C9_ClearAtomic ==
  [][last'.op = "clearScene" => (objects' = <<>> /\ selectedObject' = Null)]_vars

C9_Witness ==
  /\ last.op = "clearScene"
  /\ objects = <<>>
  /\ selectedObject = Null
  /\ nextId > 2

\* C10: selectObject(id) selects the collection's entry for a present id and
\* sets the selection to null for null and for an id that is not present;
\* the collection is unchanged.
C10_SelectResolves ==
  [][ last'.op = "selectObject" =>
        /\ objects' = objects
        /\ selectedObject' = IF last'.id \in Ids(objects)
                             THEN Find(objects, last'.id) ELSE Null ]_vars

\* the stages of the invocation that created room r which have not run yet
PendingStages(r) == { t.stage : t \in { u \in timers : u.room = r } }

\* C11: the stages of one invocation run in the order they were scheduled:
\* the invocation's pending stages are always the last ones, k..6 for some k,
\* the stage that runs is the first of them and appends all its entities in
\* that step, and a stage is only ever scheduled by a new invocation, for its
\* own new room, so no stage runs twice.
C11_StagesInOrder ==
  /\ [](\A r \in 1..(nextRoom - 1) :
          \E k \in 1..(NumStages + 1) : PendingStages(r) = k..NumStages)
  /\ [][(timers \ timers') # {} =>
          \E t \in timers :
            /\ timers' = timers \ {t}
            /\ t.stage = CHOOSE k \in PendingStages(t.room) :
                           \A j \in PendingStages(t.room) : k <= j
            /\ Len(objects') = Len(objects) + Len(StageParams(t.stage, t.room))
            /\ \A i \in 1..Len(StageParams(t.stage, t.room)) :
                 Without(objects'[Len(objects) + i], "id")
                   = StageParams(t.stage, t.room)[i]]_vars
  /\ [][(timers' \ timers) # {} =>
          /\ nextRoom' = nextRoom + 1
          /\ timers' \ timers = Scheduled(nextRoom, now, timerSeq)
          /\ \A t \in timers : t.room < nextRoom /\ t.seq <= timerSeq]_vars

\* the first two stages have run, in that order, after a clear in between
C11_Witness ==
  /\ last.op = "stage"
  /\ PendingStages(1) = 3..NumStages
  /\ Len(objects) = Len(Stage2(1))
  /\ Without(objects[1], "id") = Stage2(1)[1]

\* the entities of the shell of a room: its floor, then its four walls
ShellOf(room) == <<room.floor>> \o room.walls

\* C12: from the return of analyzeAndCreateBlueprint until the next operation
\* or stage, the collection is exactly the shell of the room the call created
\* (one floor and four walls) and all six stages are still pending.
C12_ReturnsBeforeStages ==
  last.op = "analyzeAndCreateBlueprint" =>
    /\ IsEntity(currentRoom) /\ currentRoom.id = last.id
    /\ objects = ShellOf(currentRoom)
    /\ Len(objects) = ShellSize
    /\ objects[1].type = "floor"
    /\ \A i \in 2..ShellSize : objects[i].type = "wall"
    /\ PendingStages(last.id) = 1..NumStages

\* the call has returned and the first deadline has come, no stage has run
C12_Witness ==
  /\ last.op = "analyzeAndCreateBlueprint"
  /\ now = StageDelay(1)
  /\ Cardinality(timers) = NumStages
  /\ Len(objects) = ShellSize

RECURSIVE AllStages(_, _)
\* the createObject parameters of stages k..6, in order
AllStages(k, roomId) ==
  IF k > NumStages THEN <<>>
  ELSE StageParams(k, roomId) \o AllStages(k + 1, roomId)

\* the invocation that created the current room has finished: no stage is
\* pending, and the collection is the shell of one custom room followed by
\* the entities of the six stages, each once, all with ids made by this
\* invocation
SynthesisDone ==
  /\ timers = {}
  /\ IsEntity(currentRoom)
  /\ currentRoom.type = "custom"
  /\ Len(objects) = 40
  /\ SubSeq(objects, 1, ShellSize) = ShellOf(currentRoom)
  /\ objects[1].type = "floor"
  /\ \A i \in 2..ShellSize : objects[i].type = "wall"
  /\ Len(AllStages(1, currentRoom.id)) = 35
  /\ \A i \in 1..35 :
       Without(objects[ShellSize + i], "id") = AllStages(1, currentRoom.id)[i]
  /\ \A i \in 1..40 : objects[i].id = nextId - 41 + i

\* C13: with nothing else running, every invocation, from whatever scene it
\* starts, is followed by a state in which all its stages have run once and
\* the collection holds exactly 40 entities: the 5 of the shell of one custom
\* room and the 35 of the six stages, none from before the invocation.
C13_SynthesisCompletes ==
  (last.op = "analyzeAndCreateBlueprint" /\ timers # {}) ~> SynthesisDone

\* an invocation started from a scene of three entities has finished
C13_Witness ==
  /\ SynthesisDone
  /\ last.op = "stage"
  /\ nextId = 1 + MaxIds + 40

\* the entities of a collection without their ids, in no order
SansId(objs) == { Without(objs[i], "id") : i \in 1..Len(objs) }

\* C14: when all six stages have run, in whatever order, and the room of the
\* invocation is still the current room, the entities in the store (all fields
\* but id, order ignored) are the shell of that room and the 35 entities the
\* six stages create.
C14_OrderIndependent ==
  (timers = {} /\ last.op = "stage" /\ IsEntity(currentRoom)) =>
    /\ Len(objects) = 40
    /\ Cardinality(SansId(objects)) = 40
    /\ SansId(objects) = SansId(ShellOf(currentRoom))
                           \cup SansId(AllStages(1, currentRoom.id))

\* all stages have run and the first stage ran last
C14_Witness ==
  /\ timers = {}
  /\ last.op = "stage"
  /\ last.id = 1
  /\ Len(objects) = 40
  /\ Without(objects[40], "id") = Stage1(currentRoom.id)[Len(Stage1(currentRoom.id))]

\* C15: every entity added to the store with its room field set names the
\* room that is the store's current room when the operation that created the
\* entity is done (for createRoom: the room it has just made current).
C15_RoomExistsAtCreation ==
  [][\A i \in 1..Len(objects') :
       (objects'[i].id >= nextId /\ "room" \in DOMAIN objects'[i])
         => /\ IsEntity(currentRoom')
            /\ currentRoom'.id = objects'[i].room]_vars

\* C16: createRoom appends exactly five entities, a floor and then four
\* walls, all structural and all carrying the id of the new room, and leaves
\* the entities that were there as they were; the room it returns has that
\* floor and those four walls and becomes the current room in place of the
\* previous one.
C16_BuildRoomAddsShell ==
  [][(last'.op = "createRoom" /\ nextRoom' # nextRoom) =>
       LET n == Len(objects)
       IN /\ Len(objects') = n + 5
          /\ SubSeq(objects', 1, n) = objects
          /\ objects'[n + 1].type = "floor"
          /\ \A i \in 2..5 : objects'[n + i].type = "wall"
          /\ \A i \in 1..5 :
               /\ objects'[n + i].room = result'.id
               /\ objects'[n + i].isStructural = TRUE
               /\ objects'[n + i].id \notin Ids(objects)
          /\ IdsUnique(objects')
          /\ result'.id = nextRoom
          /\ result'.floor = objects'[n + 1]
          /\ result'.walls = SubSeq(objects', n + 2, n + 5)
          /\ currentRoom' = result'
          /\ currentRoom' # currentRoom]_vars

\* a second room has been built in a scene with other entities and has
\* replaced the first as current room
C16_Witness ==
  /\ last.op = "createRoom"
  /\ last.id = 2
  /\ IsEntity(currentRoom)
  /\ currentRoom.id = 2
  /\ currentRoom = result
  /\ Len(objects) > 2 * ShellSize
  /\ \E i \in 1..Len(objects) : "room" \in DOMAIN objects[i] /\ objects[i].room = 1
  /\ \E i \in 1..Len(objects) : objects[i].type = "cube"

\* the footprint of an entity: its extent in x and z, from position and scale
XMin(e) == e.position.x - (e.scale.x \div 2)
XMax(e) == e.position.x + (e.scale.x \div 2)
ZMin(e) == e.position.z - (e.scale.z \div 2)
ZMax(e) == e.position.z + (e.scale.z \div 2)

\* the footprint of e contains the cell [x, x + h] by [z, z + h]
CoversCell(e, x, z, h) ==
  /\ XMin(e) <= x /\ x + h <= XMax(e)
  /\ ZMin(e) <= z /\ z + h <= ZMax(e)

\* the walls of a room that meet at the corner (sx * width/2, sz * length/2)
WallsAtCorner(room, sx, sz) ==
  { room.walls[IF sz = 1 THEN 1 ELSE 2], room.walls[IF sx = 1 THEN 3 ELSE 4] }

\* how many of the two walls that meet at a corner cover the quarter (qx, qz)
\* of the wall-thickness square around the corner point; qx, qz are -1 for
\* the quarter below the corner coordinate and 0 for the quarter above it
CornerCover(room, sx, sz, qx, qz) ==
  LET h == One \div 10
      cx == sx * (room.dimensions.width \div 2)
      cz == sz * (room.dimensions.length \div 2)
  IN Cardinality({ w \in WallsAtCorner(room, sx, sz) :
                     CoversCell(w, cx + qx * h, cz + qz * h, h) })

\* each wall runs along the floor edge it belongs to, from corner to corner
WallsOnEdges(room) ==
  LET d == room.dimensions
      north == room.walls[1]
      south == room.walls[2]
      east == room.walls[3]
      west == room.walls[4]
  IN /\ room.floor.position = Vec(0, 0, 0)
     /\ room.floor.scale.x = d.width /\ room.floor.scale.z = d.length
     /\ \A w \in {north, south} :
          /\ XMin(w) = XMin(room.floor) /\ XMax(w) = XMax(room.floor)
          /\ w.scale.z = One \div 5
     /\ north.position.z = ZMax(room.floor)
     /\ south.position.z = ZMin(room.floor)
     /\ \A w \in {east, west} :
          /\ ZMin(w) = ZMin(room.floor) /\ ZMax(w) = ZMax(room.floor)
          /\ w.scale.x = One \div 5
     /\ east.position.x = XMax(room.floor)
     /\ west.position.x = XMin(room.floor)

Signs == {-1, 1}
Quarters == {-1, 0}

C18_AddFurnitureCreatesOne ==
  [][\A roomId \in 1..MaxBuild, furnitureType \in FurnishTypes,
        position \in FurnishPositions :
       AddFurniture(roomId, furnitureType, position) =>
         LET e == objects'[Len(objects')]
         IN /\ Len(objects') = Len(objects) + 1
            /\ SubSeq(objects', 1, Len(objects)) = objects
            /\ e.id \notin Ids(objects)
            /\ e.type = "furniture"
            /\ e.subtype = furnitureType
            /\ e.room = roomId
            /\ furnitureType \in DOMAIN furnitureColors
                 => /\ e.color = furnitureColors[furnitureType]
                    /\ e.scale = furnitureScales[furnitureType]
            /\ furnitureType \notin DOMAIN furnitureColors
                 => /\ e.color = "#8B4513"
                    /\ e.scale = Vec(One, One, One)
            /\ e.position = (IF "x" \in DOMAIN position THEN position
                             ELSE Vec(0, One \div 2, 0))
            /\ selectedObject' = e
            /\ result' = e]_vars

\* a listed type was added without a position and then an unlisted type at a
\* given position
C18_Witness ==
  /\ last.op = "addFurniture"
  /\ Len(objects) = ShellSize + 2
  /\ objects[ShellSize + 1].subtype = "sofa"
  /\ objects[ShellSize + 1].color = "#4A4A4A"
  /\ objects[ShellSize + 1].position = Vec(0, 50, 0)
  /\ objects[ShellSize + 2].subtype = "coffee_table"
  /\ objects[ShellSize + 2].color = "#8B4513"
  /\ objects[ShellSize + 2].scale = Vec(100, 100, 100)
  /\ objects[ShellSize + 2].position = Vec(-200, 40, 200)
  /\ selectedObject = objects[ShellSize + 2]

\* the shape a shape word stands for
CanonicalShape(s) ==
  CASE s \in {"cube", "box"} -> "cube"
    [] s \in {"sphere", "circle", "ball"} -> "sphere"
    [] s \in {"cylinder", "tube"} -> "cylinder"
    [] s \in {"cone", "pyramid"} -> "cone"
    [] s \in {"torus", "ring", "donut"} -> "torus"
    [] s \in {"plane", "rectangle", "square"} -> "plane"

\* C19: for each of the fifteen shape words s and each color name c, parsing
\* "create s c" succeeds with a create action whose shape is the shape s
\* stands for and whose color is the hex value of c.
C19_CreateShapeColor ==
  (last.op = "parseCommand" /\ last.id \in CreateCommands) =>
    /\ Cardinality(ShapeTokens) = 15
    /\ result.success = TRUE
    /\ result.action.type = "create"
    /\ result.action.shape = CanonicalShape(last.id[3])
    /\ result.action.color = colorMap[last.id[5]]

\* "create donut navy" has been parsed
C19_Witness ==
  /\ last.op = "parseCommand"
  /\ last.id = <<"create", " ", "donut", " ", "navy">>
  /\ result.success = TRUE
  /\ result.action.shape = "torus"
  /\ result.action.color = "#000080"

\* C20: parsing the empty string or a string of whitespace only fails with
\* 'Empty command'.
C20_BlankIsEmptyCommand ==
  (last.op = "parseCommand" /\ last.id \in BlankCommands) =>
    result = Failure("Empty command")

\* the tokens of a command written in lower case
Words(command) == SelectSeq(command, LAMBDA p : ~IsSpace(p))

VerbSynonyms ==
  {"create", "add", "make", "move", "translate", "rotate", "turn", "scale",
   "resize", "size", "color", "paint", "select", "choose", "delete", "remove",
   "clear", "reset"}

IsUnknownVerb(r) ==
  /\ r.success = FALSE
  /\ \E w \in {"fly", "big", "a", "nice", "huge", "flat", "cube", "sphere",
               "cone", "hello"} :
       r.error = "Unknown command: " \o w
                   \o ". Try 'create', 'move', 'rotate', 'scale', 'color', or 'delete'"

\* C21: for a command whose first token is no verb: when one of the tokens
\* after the first is cube, sphere, cylinder, cone, torus or plane the result
\* is not the unknown-verb failure, and otherwise it is.
C21_FallbackToCreate ==
  (last.op = "parseCommand" /\ last.id \in FallbackCommands) =>
    LET tokens == Words(last.id)
    IN /\ tokens[1] \notin VerbSynonyms
       /\ IsUnknownVerb(result)
            <=> ~\E i \in 2..Len(tokens) :
                   tokens[i] \in {"cube", "sphere", "cylinder", "cone", "torus", "plane"}

\* the first token, after the verb, that is a number
FirstNumber(tokens) ==
  LET found == { i \in 2..Len(tokens) : tokens[i] \in DOMAIN Numbers }
  IN Numbers[tokens[CHOOSE i \in found : \A j \in found : i <= j]]

\* C22: a scale/resize/size command fails when no token after the verb is a
\* number, fails with 'Scale value must be positive' when the first such
\* number is not positive, and otherwise succeeds with a modify action on
\* scale with that number on all three axes.
C22_ScaleCommand ==
  (last.op = "parseCommand" /\ last.id \in ScaleCommands) =>
    LET tokens == Words(last.id)
    IN /\ tokens[1] \in {"scale", "resize", "size"}
       /\ IF ~\E i \in 2..Len(tokens) : tokens[i] \in DOMAIN Numbers
          THEN result.success = FALSE /\ "action" \notin DOMAIN result
          ELSE IF FirstNumber(tokens) <= 0
          THEN result = Failure("Scale value must be positive")
          ELSE /\ result.success = TRUE
               /\ result.action.type = "modify"
               /\ result.action.property = "scale"
               /\ result.action.scale = Vec(FirstNumber(tokens), FirstNumber(tokens),
                                            FirstNumber(tokens))

\* "scale it 2 -2" has been parsed: the first number counts
C22_Witness ==
  /\ last.op = "parseCommand"
  /\ last.id = <<"scale", " ", "it", " ", "2", " ", "-2">>
  /\ result.success = TRUE
  /\ result.action.scale = Vec(200, 200, 200)

\* the position a "to x y [z]" phrase names, or Undefined when the first "to"
\* is not followed by two numbers
ToTarget(tokens) ==
  LET tos == { i \in 2..Len(tokens) : tokens[i] = "to" }
      i == CHOOSE k \in tos : \A j \in tos : k <= j
      num(k) == k <= Len(tokens) /\ tokens[k] \in DOMAIN Numbers
  IN IF tos # {} /\ num(i + 1) /\ num(i + 2)
     THEN Vec(Numbers[tokens[i + 1]], Numbers[tokens[i + 2]],
              IF num(i + 3) THEN Numbers[tokens[i + 3]] ELSE 0)
     ELSE Undefined

\* C23: a move/translate command with something after the verb gives
\* position (0, 1, 0) when a token is "up", else (0, -1, 0) when a token is
\* "down", else (x, y, z) when "to" is followed by numbers x y and possibly z
\* (0 without it), and fails with 'Invalid move command...' and no action in
\* every other case.
C23_MoveCommand ==
  (last.op = "parseCommand" /\ last.id \in MoveCommands /\ Len(last.id) > 1) =>
    LET tokens == Words(last.id)
        has(w) == \E i \in 2..Len(tokens) : tokens[i] = w
        moved(p) == /\ result.success = TRUE
                    /\ result.action.type = "modify"
                    /\ result.action.property = "position"
                    /\ result.action.position = p
    IN /\ tokens[1] \in {"move", "translate"}
       /\ IF has("up") THEN moved(Vec(0, One, 0))
          ELSE IF has("down") THEN moved(Vec(0, 0 - One, 0))
          ELSE IF ToTarget(tokens) # Undefined THEN moved(ToTarget(tokens))
          ELSE result = Failure("Invalid move command. Try: move up, move down, move to x y z")

\* "translate to 1 2" has been parsed: z is 0
C23_Witness ==
  /\ last.op = "parseCommand"
  /\ last.id = <<"translate", " ", "to", " ", "1", " ", "2">>
  /\ result.success = TRUE
  /\ result.action.position = Vec(100, 200, 0)

\* C24: an export yields one object per entity, in the order of the
\* collection, equal to the entity except that modelPath is absent when the
\* kind is imported; the collection and the selection stay as they were.
C24_ExportStripsImportedPath ==
  [][(last'.op = "exportScene" /\ last.op # "exportScene") =>
       /\ objects' = objects
       /\ selectedObject' = selectedObject
       /\ Len(result'.objects) = Len(objects)
       /\ \A i \in 1..Len(objects) :
            IF objects[i].type = "imported"
            THEN /\ "modelPath" \notin DOMAIN result'.objects[i]
                 /\ result'.objects[i] = Without(objects[i], "modelPath")
            ELSE result'.objects[i] = objects[i]]_vars

\* an export of a scene with an imported model and with an entity of another
\* kind that carries a modelPath
C24_Witness ==
  /\ last.op = "exportScene"
  /\ \E i \in 1..Len(objects) :
       objects[i].type = "imported" /\ "modelPath" \in DOMAIN objects[i]
  /\ \E i \in 1..Len(objects) :
       /\ objects[i].type # "imported" /\ "modelPath" \in DOMAIN objects[i]
       /\ "modelPath" \in DOMAIN result.objects[i]

\* the entity of the collection that is selected
SelectedIndex == CHOOSE i \in 1..Len(objects) : objects[i].id = selectedObject.id

\* C25: "move up" or "move down" typed into the command line with an entity
\* at (x, y, z) selected leaves that entity at (x, y + 1, z) or (x, y - 1, z)
\* and changes no other entity.
C25_MoveIsRelative ==
  [][( /\ last'.op = "executeCommand"
       /\ Words(last'.id) \in {<<"move", "up">>, <<"move", "object", "down">>}
       /\ IsEntity(selectedObject)
       /\ selectedObject.id \in Ids(objects) ) =>
       LET dy == IF Words(last'.id) = <<"move", "up">> THEN One ELSE 0 - One
           p == objects[SelectedIndex].position
       IN /\ Len(objects') = Len(objects)
          /\ \A i \in 1..Len(objects) :
               IF i = SelectedIndex
               THEN objects'[i].position = Vec(p.x, p.y + dy, p.z)
               ELSE objects'[i] = objects[i]]_vars

ModifyArrived ==
  /\ last'.op = "aiResponse"
  /\ Cardinality(pending') < Cardinality(pending)
  /\ "success" \in DOMAIN result'
  /\ result'.success
  /\ result'.action.type = "modify"

\* the collection after the updates are merged into the entity with the id
AppliedTo(id, updates) ==
  /\ Len(objects') = Len(objects)
  /\ \A i \in 1..Len(objects) :
       objects'[i] = IF objects[i].id = id THEN Merge(objects[i], updates)
                     ELSE objects[i]
  /\ selectedObject' = IF IsEntity(selectedObject) /\ selectedObject.id = id
                       THEN Merge(selectedObject, updates) ELSE selectedObject

\* C26: when the response to a message arrives with a modify command, the
\* property the command names gets the command's value on the entity that was
\* selected when the message was sent, and on no other entity, whatever is
\* selected now; when that entity is no longer in the collection, the
\* collection and the selection stay as they are.
C26_AppliedToCaptured ==
  [][ModifyArrived =>
       LET action == result'.action
       IN IF last'.id \in Ids(objects)
          THEN AppliedTo(last'.id, [k \in {action.property} |-> action[k]])
          ELSE objects' = objects /\ selectedObject' = selectedObject]_vars

\* The same for the commands on color and scale only; a command on position
\* or rotation changes nothing.
AssistantTargetsCaptured ==
  [][ModifyArrived =>
       LET action == result'.action
       IN IF last'.id \in Ids(objects) /\ action.property \in {"color", "scale"}
          THEN AppliedTo(last'.id, [k \in {action.property} |-> action[k]])
          ELSE objects' = objects /\ selectedObject' = selectedObject]_vars

\* a scale command has arrived for an entity that is no longer the selected one
AssistantRetargeted ==
  /\ last.op = "aiResponse"
  /\ last.hit
  /\ "success" \in DOMAIN result
  /\ result.success
  /\ result.action.type = "modify"
  /\ result.action.property = "scale"
  /\ IsEntity(selectedObject)
  /\ selectedObject.id # last.id
  /\ \E i \in 1..Len(objects) :
       objects[i].id = last.id /\ objects[i].scale = Vec(150, 150, 150)

\* C27: right after a stage has run the selection is the entity the stage
\* created last, the last of the collection, whatever was selected before.
C27_StageSelectsLastCreated ==
  [][(timers \ timers') # {} =>
       /\ last'.op = "stage"
       /\ Len(objects') > Len(objects)
       /\ IsEntity(selectedObject')
       /\ selectedObject' = objects'[Len(objects')]
       /\ selectedObject'.id = nextId' - 1
       /\ selectedObject'.id >= nextId]_vars

\* the last stage has run while the floor of the room was the user's selection
\* or nothing was: the selection is the last entity of that stage
C27_Witness ==
  /\ last.op = "stage"
  /\ timers = {}
  /\ objects # <<>>
  /\ IsEntity(selectedObject)
  /\ selectedObject = objects[Len(objects)]
  /\ Without(selectedObject, "id") = Stage6(1)[Len(Stage6(1))]

\* C28: whenever no stage is pending, every entity that has a room has the id
\* of the current room.
C28_QuiescentRoomsCurrent ==
  timers = {} =>
    \A i \in 1..Len(objects) :
      "room" \in DOMAIN objects[i] =>
        IsEntity(currentRoom) /\ objects[i].room = currentRoom.id

\* C29: clearScene leaves the current room, the floor plan and the view mode
\* as they were.
C29_ClearKeepsRoomPlanView ==
  [][last'.op = "clearScene" =>
       /\ currentRoom' = currentRoom
       /\ floorPlan' = floorPlan
       /\ viewMode' = viewMode]_vars

\* the scene has been cleared with a room current, a blueprint imported and
\* the 2d view chosen
C29_Witness ==
  /\ last.op = "clearScene"
  /\ objects = <<>>
  /\ selectedObject = Null
  /\ currentRoom # Null
  /\ floorPlan # Null
  /\ floorPlan.name = "flat"
  /\ viewMode = "2d"

====
